---- MODULE Spec2Model ----
(***************************************************************************)
(* Headphones: the acquisition search and dispatch engine                  *)
(* (headphones/searcher.py).  One invocation of do_sorted_search is a      *)
(* small process: it queries the provider tiers in the order of the        *)
(* configured preference mode, filters and ranks what they return, fetches *)
(* the payload of the best result (preprocess) and hands it to a download  *)
(* backend (send_to_downloader), which writes the snatched ledger.         *)
(***************************************************************************)
EXTENDS Integers, Sequences, FiniteSets, TLC

\* A search may start while the ledger holds fewer rows than this.
MaxSnatched == 2

Procs == {1, 2}
\* The invocations that run one after another.
SeqProcs == {1}

AlbumIDs == {"a1"}

None == "None"

(***************************************************************************)
(* Results (headphones.types.Result): title, size, url, provider, kind,    *)
(* matches.                                                                *)
(***************************************************************************)
Result(title, size, url, provider, kind, matches) ==
    [title |-> title, size |-> size, url |-> url, provider |-> provider,
     kind |-> kind, matches |-> matches]

\* 'flac' in result.title.lower()
IsFlac(title) == title \in {"album flac"}

\* url.lower().startswith("magnet:")
IsMagnet(url) == url \in {"magnet:p1", "magnet:z1"}

\* provider.startswith("Torznab") or 'torznab' in provider.lower()
IsTorznab(provider) == provider \in {"Torznab|jackett|host"}

GazelleProviders == {"Orpheus.network", "Redacted"}
TorrentProviders == {"torznab", "rutracker.org", "Orpheus.network", "Redacted", "The Pirate Bay"}

\* What the providers can hold for the album searched.
NzbHit1 == Result("album", 100, "http://n/1", "newznab", "nzb", TRUE)
NzbHit2 == Result("album flac", 300, "http://n/2", "headphones", "nzb", TRUE)
TorznabHit == Result("album", 120, "http://z/1", "Torznab|jackett|host", "torrent", TRUE)
RutrackerHit == Result("album", 150, "http://ru/1", "rutracker.org", "torrent", TRUE)
GazelleHit(provider) ==
    Result("album flac", 400, IF provider = "Redacted" THEN "http://red/1" ELSE "http://ops/1",
           provider, "torrent", TRUE)
PirateHit(match) == Result("album", 130, "magnet:p1", "The Pirate Bay", "torrent", match)
BandcampHit == Result("album", 80, "http://bc/1", "bandcamp", "bandcamp", TRUE)
SoulseekHit == Result("album", 110, "http://user/album", "soulseek", "soulseek", TRUE)

RECURSIVE SelectSeq2(_, _)
\* [x for x in s if x in keep], for a set keep
SelectSeq2(s, keep) ==
    IF s = <<>> THEN <<>>
    ELSE (IF Head(s) \in keep THEN <<Head(s)>> ELSE <<>>) \o SelectSeq2(Tail(s), keep)

Range(s) == {s[i] : i \in 1..Len(s)}

(***************************************************************************)
(* Quality configuration read by more_filtering and sort_search_results.   *)
(***************************************************************************)
QualityCfg(q, bitrate, low, high, allow, lfrom, lto, words) ==
    [PREFERRED_QUALITY |-> q, PREFERRED_BITRATE |-> bitrate,
     PREFERRED_BITRATE_LOW_BUFFER |-> low, PREFERRED_BITRATE_HIGH_BUFFER |-> high,
     PREFERRED_BITRATE_ALLOW_LOSSLESS |-> allow,
     LOSSLESS_BITRATE_FROM |-> lfrom, LOSSLESS_BITRATE_TO |-> lto,
     PREFERRED_WORDS |-> words]

\* The quality configuration and album durations (ms) the searches run under: a
\* target bitrate of 1 kbps with buffers of 20% below and 50% above, lossless allowed.
SearchQualities ==
    { QualityCfg(2, 1, 20, 50, TRUE, 0, 0, <<"newznab">>) }
AlbumLengths == {1000}

(***************************************************************************)
(* The snatched ledger: rows (AlbumID, URL, Status), in insertion order.   *)
(***************************************************************************)
Row(albumid, url, status) == [AlbumID |-> albumid, URL |-> url, Status |-> status]

\* SELECT * from snatched WHERE URL=?
AlreadyDownloaded(ledger, url) == {i \in 1..Len(ledger) : ledger[i].URL = url}

(***************************************************************************)
(* more_filtering.  Sizes are compared scaled by 100000, so that           *)
(* albumlength / 1000 * kbps * 128 and the percentage buffers stay whole   *)
(* numbers; a limit of 0 stands for both None and 0, which the code's      *)
(* truth tests do not tell apart.                                          *)
(***************************************************************************)
LowSizeLimit(cfg, albumlength) ==
    IF cfg.PREFERRED_QUALITY = 3 /\ albumlength # 0
       /\ (cfg.LOSSLESS_BITRATE_FROM # 0 \/ cfg.LOSSLESS_BITRATE_TO # 0)
    THEN (IF cfg.LOSSLESS_BITRATE_FROM # 0
          THEN albumlength * cfg.LOSSLESS_BITRATE_FROM * 128 * 100 ELSE 0)
    ELSE IF cfg.PREFERRED_QUALITY = 2 /\ cfg.PREFERRED_BITRATE # 0
    THEN (IF albumlength # 0 /\ cfg.PREFERRED_BITRATE_LOW_BUFFER # 0
          THEN albumlength * cfg.PREFERRED_BITRATE * 128 * (100 - cfg.PREFERRED_BITRATE_LOW_BUFFER)
          ELSE 0)
    ELSE 0

HighSizeLimit(cfg, albumlength) ==
    IF cfg.PREFERRED_QUALITY = 3 /\ albumlength # 0
       /\ (cfg.LOSSLESS_BITRATE_FROM # 0 \/ cfg.LOSSLESS_BITRATE_TO # 0)
    THEN (IF cfg.LOSSLESS_BITRATE_TO # 0
          THEN albumlength * cfg.LOSSLESS_BITRATE_TO * 128 * 100 ELSE 0)
    ELSE IF cfg.PREFERRED_QUALITY = 2 /\ cfg.PREFERRED_BITRATE # 0
    THEN (IF albumlength # 0 /\ cfg.PREFERRED_BITRATE_HIGH_BUFFER # 0
          THEN albumlength * cfg.PREFERRED_BITRATE * 128 * (100 + cfg.PREFERRED_BITRATE_HIGH_BUFFER)
          ELSE 0)
    ELSE 0

AllowLossless(cfg, albumlength) ==
    /\ ~(cfg.PREFERRED_QUALITY = 3 /\ albumlength # 0
         /\ (cfg.LOSSLESS_BITRATE_FROM # 0 \/ cfg.LOSSLESS_BITRATE_TO # 0))
    /\ cfg.PREFERRED_QUALITY = 2 /\ cfg.PREFERRED_BITRATE # 0
    /\ albumlength # 0
    /\ cfg.PREFERRED_BITRATE_HIGH_BUFFER # 0
    /\ cfg.PREFERRED_BITRATE_ALLOW_LOSSLESS

\* Size tests that also drop a result whose size is the limit itself.
InSizeWindowExclusive(r, cfg, albumlength) ==
    LET low == LowSizeLimit(cfg, albumlength)
        high == HighSizeLimit(cfg, albumlength)
    IN /\ ~(low # 0 /\ r.size * 100000 <= low)
       /\ ~(/\ high # 0 /\ r.size * 100000 >= high
            /\ ~(AllowLossless(cfg, albumlength) /\ IsFlac(r.title)))

\* The size tests of the loop body (lines 460-474): TRUE when the result is not dropped.
InSizeWindow(r, cfg, albumlength) ==
    LET low == LowSizeLimit(cfg, albumlength)
        high == HighSizeLimit(cfg, albumlength)
    IN /\ ~(low # 0 /\ r.size * 100000 < low)
       /\ ~(/\ high # 0 /\ r.size * 100000 > high
            /\ ~(AllowLossless(cfg, albumlength) /\ IsFlac(r.title)))

\* A dedup test that never drops a result.
NotAlreadySnatchedKeepsAll(r, new, ledger) == TRUE

\* The dedup test of the loop body (lines 476-485): TRUE when the result is not dropped.
NotAlreadySnatched(r, new, ledger) ==
    ~(new /\ AlreadyDownloaded(ledger, r.url) # {})

more_filtering(results, cfg, albumlength, new, ledger) ==
    SelectSeq2(results, {r \in Range(results) :
                            /\ InSizeWindow(r, cfg, albumlength)
                            /\ NotAlreadySnatched(r, new, ledger)})

(***************************************************************************)
(* sort_search_results.  Entries carry an ascending key triple; the sort   *)
(* is stable, as Python's sorted is (also with reverse=True).              *)
(***************************************************************************)
KeyLess(a, b) ==
    \/ a.k1 < b.k1
    \/ a.k1 = b.k1 /\ a.k2 < b.k2
    \/ a.k1 = b.k1 /\ a.k2 = b.k2 /\ a.k3 < b.k3

RECURSIVE InsertSorted(_, _)
InsertSorted(e, s) ==
    IF s = <<>> THEN <<e>>
    ELSE IF KeyLess(e, Head(s)) THEN <<e>> \o s
    ELSE <<Head(s)>> \o InsertSorted(e, Tail(s))

RECURSIVE StableSort(_)
StableSort(s) ==
    IF s = <<>> THEN <<>>
    ELSE InsertSorted(s[Len(s)], StableSort(SubSeq(s, 1, Len(s) - 1)))

Bit(b) == IF b THEN 1 ELSE 0

\* preferred_words.index(word), counted from 0
WordIndex(words, w) == (CHOOSE i \in 1..Len(words) : words[i] = w /\ \A j \in 1..(i - 1) : words[j] # w) - 1

RECURSIVE PrioritySum(_, _, _)
PrioritySum(r, words, i) ==
    IF i > Len(words) THEN 0
    ELSE (IF words[i] \in {r.title, r.provider}
          THEN Len(words) - WordIndex(words, words[i]) ELSE 0)
         + PrioritySum(r, words, i + 1)

Priority(r, words) == PrioritySum(r, words, 1)

\* A sort that puts the smaller result first.
sort_by_priority_then_size_ascending(rs, words) ==
    LET es == [i \in 1..Len(rs) |->
                 [r |-> rs[i], k1 |-> 0 - Bit(rs[i].matches),
                  k2 |-> 0 - Priority(rs[i], words), k3 |-> rs[i].size]]
        sorted == StableSort(es)
    IN [i \in 1..Len(sorted) |-> sorted[i].r]

sort_by_priority_then_size(rs, words) ==
    LET es == [i \in 1..Len(rs) |->
                 [r |-> rs[i], k1 |-> 0 - Bit(rs[i].matches),
                  k2 |-> 0 - Priority(rs[i], words), k3 |-> 0 - rs[i].size]]
        sorted == StableSort(es)
    IN [i \in 1..Len(sorted) |-> sorted[i].r]

\* A distance that keeps its sign.
SignedDifference(x) == x

Abs(x) == IF x < 0 THEN 0 - x ELSE x

\* None and the empty list are both returned as <<>>: callers only test "not ...".
sort_search_results(resultlist, cfg, new, albumlength) ==
    IF new /\ resultlist = <<>> THEN <<>>
    ELSE IF cfg.PREFERRED_QUALITY = 2 /\ cfg.PREFERRED_BITRATE # 0
    THEN LET targetsize == albumlength * cfg.PREFERRED_BITRATE * 128
         IN IF targetsize = 0
            THEN sort_by_priority_then_size(resultlist, cfg.PREFERRED_WORDS)
            ELSE LET lossless == SelectSeq2(resultlist, {r \in Range(resultlist) : IsFlac(r.title)})
                     lossy == SelectSeq2(resultlist, {r \in Range(resultlist) : ~IsFlac(r.title)})
                     es == [i \in 1..Len(lossy) |->
                              [r |-> lossy[i], k1 |-> 0 - Bit(lossy[i].matches),
                               k2 |-> 0 - Priority(lossy[i], cfg.PREFERRED_WORDS),
                               k3 |-> Abs(targetsize - lossy[i].size * 1000)]]
                     sorted == StableSort(es)
                 IN IF lossy # <<>> THEN [i \in 1..Len(sorted) |-> sorted[i].r]
                    ELSE IF lossless # <<>> /\ cfg.PREFERRED_BITRATE_ALLOW_LOSSLESS
                    THEN sort_by_priority_then_size(lossless, cfg.PREFERRED_WORDS)
                    ELSE <<>>
    ELSE sort_by_priority_then_size(resultlist, cfg.PREFERRED_WORDS)


(***************************************************************************)
(* State.                                                                  *)
(*   snatched     the snatched table                                       *)
(*   albumStatus  albums.Status                                            *)
(*   CONFIG       headphones.CONFIG: the settings that select and order    *)
(*                the tiers, the trackers enabled, the quality settings    *)
(*   gazelleobjs  the persistent gazelle API objects, per provider         *)
(*   ruobj        the persistent rutracker object                          *)
(*   inv          the do_sorted_search invocations                         *)
(*   fncall       the call in progress of one of the functions that are    *)
(*                checked on their own: its name, arguments and outcome    *)
(***************************************************************************)
VARIABLES snatched, albumStatus, CONFIG, gazelleobjs, ruobj, inv, fncall

vars == <<snatched, albumStatus, CONFIG, gazelleobjs, ruobj, inv, fncall>>

\* A session object is None or an object; whether the object's logged_in() is still
\* true is asked of the tracker at each search.
SessionStates == {None, "session"}

\* What a call checked on its own ends with: a value, None, or an exception.
Returned(value) == [kind |-> "value", value |-> value]
ReturnedNone == [kind |-> "none", value |-> <<>>]
Raised == [kind |-> "raise", value |-> <<>>]

NoCall == [fn |-> "none", args |-> <<>>, out |-> ReturnedNone]

NoTorrentCall ==
    [enabled |-> {}, queried |-> <<>>, valid |-> {}, logins |-> {}, failed |-> {},
     raised |-> FALSE]
NoDispatch ==
    [push |-> "none", rows |-> 0, marked |-> FALSE, torrentid |-> FALSE, seed |-> "none",
     written |-> <<>>]
NoResult == Result("", 0, "", "", "", FALSE)

\* The sets of trackers enabled in the configurations searched.
TrackerSetups ==
    { {}, {"torznab"}, {"Orpheus.network", "The Pirate Bay"}, {"rutracker.org", "Redacted"} }

\* TORRENT_PROVIDERS stands for the settings TORZNAB, PIRATEBAY, RUTRACKER, ORPHEUS
\* and REDACTED: the set of those that are on.
Configs ==
    [PREFER_TORRENTS : 0..3, NZB_PROVIDERS : BOOLEAN, NZB_DOWNLOADERS : BOOLEAN,
     TORRENT_PROVIDERS : TrackerSetups, BANDCAMP : BOOLEAN, SOULSEEK : BOOLEAN,
     QUALITY : SearchQualities]

Idle ==
    [pc |-> "idle", album |-> "a1", new |-> FALSE,
     albumlength |-> 0,
     step |-> 1, results |-> <<>>, resNone |-> FALSE, called |-> <<>>,
     raw |-> <<>>, filtered |-> <<>>, tcall |-> NoTorrentCall,
     ranked |-> FALSE, sorted |-> <<>>, data |-> None, cand |-> NoResult, tordl |-> 0,
     dispatch |-> NoDispatch]

Init ==
    /\ CONFIG \in Configs
    /\ snatched = <<>>
    /\ albumStatus = [a \in AlbumIDs |-> "Wanted"]
    /\ gazelleobjs = [g \in GazelleProviders |-> None]
    /\ ruobj = None
    /\ inv = [p \in Procs |-> Idle]
    /\ fncall = NoCall

(***************************************************************************)
(* do_sorted_search: tier availability and order.                          *)
(***************************************************************************)
Available(c, tier) ==
    CASE tier = "nzb" -> c.NZB_PROVIDERS /\ c.NZB_DOWNLOADERS
      [] tier = "torrent" -> c.TORRENT_PROVIDERS # {}
      [] tier = "bandcamp" -> c.BANDCAMP
      [] tier = "soulseek" -> c.SOULSEEK

\* The branch of the if/elif chain taken, for choose_specific_download = False (its
\* default, and what searchforalbum passes for the searches it dispatches):
\* 0 NZBs, 1 Torrents, 2 Soulseek, 3 No Preference.
Branch(c) ==
    IF c.PREFER_TORRENTS \in {0, 1, 2} THEN c.PREFER_TORRENTS ELSE 3

\* An NZBs branch that turns to soulseek before the torrent trackers.
TierOrderSoulseekEarly(branch) ==
    CASE branch = 0 -> <<"nzb", "soulseek", "torrent", "bandcamp">>
      [] branch = 1 -> <<"torrent", "nzb", "bandcamp", "soulseek">>
      [] branch = 2 -> <<"soulseek", "nzb", "torrent", "bandcamp">>
      [] OTHER -> <<"nzb", "torrent", "bandcamp">>

\* The adapters a branch names, in the order of its statements.
TierOrder(branch) ==
    CASE branch = 0 -> <<"nzb", "torrent", "bandcamp", "soulseek">>
      [] branch = 1 -> <<"torrent", "nzb", "bandcamp", "soulseek">>
      [] branch = 2 -> <<"soulseek", "nzb", "torrent", "bandcamp">>
      [] OTHER -> <<"nzb", "torrent", "bandcamp">>

\* not results
NotResults(v) == v.resNone \/ v.results = <<>>

\* Guards that forget the "not results" test.
ShouldQueryWithoutResultsTest(c, branch, i, notResults) ==
    LET tier == TierOrder(branch)[i]
    IN IF branch = 2 /\ i = 1 THEN TRUE ELSE Available(c, tier)

\* The condition guarding the i-th adapter call of a branch.
ShouldQuery(c, branch, i, notResults) ==
    LET tier == TierOrder(branch)[i]
    IN IF branch = 3 THEN Available(c, tier)
       ELSE IF branch = 2 /\ i = 1 THEN TRUE
       ELSE (i = 1 \/ notResults) /\ Available(c, tier)

\* The invocation is at the i-th adapter call of its branch, for the tier named.
AtTier(p, tier) ==
    LET v == inv[p]
        branch == Branch(CONFIG)
    IN /\ v.pc = "tiers"
       /\ v.step <= Len(TierOrder(branch))
       /\ TierOrder(branch)[v.step] = tier
       /\ ShouldQuery(CONFIG, branch, v.step, NotResults(v))

\* results = adapter(...) in the tiered branches, x_results = adapter(...) and the
\* final concatenation in the No Preference branch.
Assign(v, tier, out, outNone) ==
    LET branch == Branch(CONFIG)
    IN [v EXCEPT !.results = IF branch = 3 THEN v.results \o out ELSE out,
                 !.resNone = IF branch = 3 THEN v.resNone ELSE outNone,
                 !.called = Append(v.called, tier),
                 !.step = v.step + 1]

\* if results and not choose_specific_download: results = more_filtering(...)
Filtered(v, verified) ==
    IF verified # <<>>
    THEN more_filtering(verified, CONFIG.QUALITY, v.albumlength, v.new, snatched)
    ELSE verified

\* do_sorted_search(album, new, losslessOnly) is called, while no other search runs.
StartWith(p, news) ==
    /\ \A q \in Procs : inv[q].pc = "idle"
    /\ Len(snatched) < MaxSnatched
    /\ \E a \in AlbumIDs, new \in news, len \in AlbumLengths :
          inv' = [inv EXCEPT ![p] = [Idle EXCEPT !.pc = "tiers", !.album = a, !.new = new,
                                                !.albumlength = len]]
    /\ UNCHANGED <<snatched, albumStatus, CONFIG, gazelleobjs, ruobj, fncall>>

\* A search, automatic (new = True) or manual.
Start(p) == StartWith(p, BOOLEAN)

\* An automatic search.
StartNew(p) == StartWith(p, {TRUE})

\* An adapter call whose guarding condition is false.
SkipTier(p) ==
    LET v == inv[p]
        branch == Branch(CONFIG)
    IN /\ v.pc = "tiers"
       /\ v.step <= Len(TierOrder(branch))
       /\ ~ShouldQuery(CONFIG, branch, v.step, NotResults(v))
       /\ inv' = [inv EXCEPT ![p].step = v.step + 1]
       /\ UNCHANGED <<snatched, albumStatus, CONFIG, gazelleobjs, ruobj, fncall>>

\* searchNZB: the providers' results that pass verifyresult, then more_filtering.
SearchNZB(p) ==
    /\ AtTier(p, "nzb")
    /\ \E verified \in {<<>>, <<NzbHit1>>, <<NzbHit2>>, <<NzbHit1, NzbHit2>>} :
          LET out == Filtered(inv[p], verified)
          IN inv' = [inv EXCEPT ![p] = [Assign(inv[p], "nzb", out, FALSE)
                                          EXCEPT !.raw = verified, !.filtered = out]]
    /\ UNCHANGED <<snatched, albumStatus, CONFIG, gazelleobjs, ruobj, fncall>>

\* searchBandcamp: whatever bandcamp.search returns.
SearchBandcamp(p) ==
    /\ AtTier(p, "bandcamp")
    /\ \E found \in {<<>>, <<BandcampHit>>} :
          inv' = [inv EXCEPT ![p] = [Assign(inv[p], "bandcamp", found, FALSE)
                                       EXCEPT !.raw = found, !.filtered = found]]
    /\ UNCHANGED <<snatched, albumStatus, CONFIG, gazelleobjs, ruobj, fncall>>

\* searchSoulseek: None when soulseek.search (or the filtering) raises.
SearchSoulseek(p) ==
    /\ AtTier(p, "soulseek")
    /\ \/ inv' = [inv EXCEPT ![p] = [Assign(inv[p], "soulseek", <<>>, TRUE)
                                       EXCEPT !.raw = <<>>, !.filtered = <<>>]]
       \/ \E verified \in {<<>>, <<SoulseekHit>>} :
             LET out == Filtered(inv[p], verified)
             IN inv' = [inv EXCEPT ![p] = [Assign(inv[p], "soulseek", out, FALSE)
                                             EXCEPT !.raw = verified, !.filtered = out]]
    /\ UNCHANGED <<snatched, albumStatus, CONFIG, gazelleobjs, ruobj, fncall>>

(***************************************************************************)
(* searchTorrent.  The providers are queried in the order of the code:     *)
(* Torznab, rutracker.org, Orpheus.network, Redacted, The Pirate Bay.  The *)
(* accumulator holds resultlist, the session objects, the providers        *)
(* reached, the logins attempted and failed, and whether an exception left *)
(* the function.                                                           *)
(***************************************************************************)
\* What the trackers answer, for a release whose date is known: torznab, gazelle
\* and rutracker searches find the release or not; a cached session is still
\* logged in or not; logins succeed or not; the
\* Pirate Bay request fails (apibay returns no JSON), or lists nothing, the
\* release, or the release with too few seeders.
Answers(enabled) ==
    [torznab : IF "torznab" \in enabled THEN BOOLEAN ELSE {FALSE},
     rulogin : IF "rutracker.org" \in enabled THEN BOOLEAN ELSE {TRUE},
     rutracker : IF "rutracker.org" \in enabled THEN BOOLEAN ELSE {FALSE},
     rualive : IF "rutracker.org" \in enabled /\ ruobj # None THEN BOOLEAN ELSE {FALSE},
     alive : {f \in [GazelleProviders -> BOOLEAN] :
                \A g \in GazelleProviders : f[g] => g \in enabled /\ gazelleobjs[g] # None},
     login : {f \in [GazelleProviders -> BOOLEAN] : \A g \in GazelleProviders \ enabled : f[g]},
     gazelle : {f \in [GazelleProviders -> BOOLEAN] : \A g \in GazelleProviders \ enabled : ~f[g]},
     pirate : IF "The Pirate Bay" \in enabled THEN {"fail", "empty", "hit", "nomatch"} ELSE {"empty"}]

TorrentAcc(gz, ru) ==
    [list |-> <<>>, gz |-> gz, ru |-> ru, queried |-> <<>>, valid |-> {}, logins |-> {},
     failed |-> {}, raised |-> FALSE]

Reached(acc, enabled, provider) == provider \in enabled /\ ~acc.raised

TorznabStep(acc, enabled, o) ==
    IF ~Reached(acc, enabled, "torznab") THEN acc
    ELSE [acc EXCEPT !.queried = Append(@, "torznab"),
                     !.list = IF o.torznab THEN Append(@, TorznabHit) ELSE @]

\* A login on every call, whatever session is cached.
NeedsLoginIgnoringCache(session, alive) == TRUE

\* not obj or not obj.logged_in()
NeedsLogin(session, alive) == session = None \/ ~alive

RutrackerStep(acc, enabled, o) ==
    IF ~Reached(acc, enabled, "rutracker.org") THEN acc
    ELSE LET login == NeedsLogin(acc.ru, o.rualive)
             ru == IF ~login THEN acc.ru ELSE IF o.rulogin THEN "session" ELSE None
         IN [acc EXCEPT !.queried = Append(@, "rutracker.org"),
                        !.ru = ru,
                        !.valid = IF acc.ru # None /\ o.rualive
                                  THEN @ \cup {"rutracker.org"} ELSE @,
                        !.logins = IF login THEN @ \cup {"rutracker.org"} ELSE @,
                        !.failed = IF login /\ ru = None THEN @ \cup {"rutracker.org"} ELSE @,
                        !.list = IF ru # None /\ o.rutracker THEN Append(@, RutrackerHit) ELSE @]

\* _search_torrent_gazelle returns the results when logged in and falls off its end
\* (None) otherwise; resultlist.extend(None) raises TypeError.
GazelleReturnsList(session) == session # None

GazelleStep(acc, enabled, provider, o) ==
    IF ~Reached(acc, enabled, provider) THEN acc
    ELSE LET login == NeedsLogin(acc.gz[provider], o.alive[provider])
             obj == IF ~login THEN acc.gz[provider]
                    ELSE IF o.login[provider] THEN "session" ELSE None
         IN [acc EXCEPT !.queried = Append(@, provider),
                        !.gz = [@ EXCEPT ![provider] = obj],
                        !.valid = IF acc.gz[provider] # None /\ o.alive[provider]
                                  THEN @ \cup {provider} ELSE @,
                        !.logins = IF login THEN @ \cup {provider} ELSE @,
                        !.failed = IF login /\ obj = None THEN @ \cup {provider} ELSE @,
                        !.list = IF GazelleReturnsList(obj) /\ o.gazelle[provider]
                                 THEN Append(@, GazelleHit(provider)) ELSE @,
                        !.raised = ~GazelleReturnsList(obj)]

PirateStep(acc, enabled, o) ==
    IF ~Reached(acc, enabled, "The Pirate Bay") THEN acc
    ELSE [acc EXCEPT !.queried = Append(@, "The Pirate Bay"),
                     !.list = CASE o.pirate = "hit" -> Append(@, PirateHit(TRUE))
                                [] o.pirate = "nomatch" -> Append(@, PirateHit(FALSE))
                                [] OTHER -> @,
                     !.raised = (o.pirate = "fail")]

TorrentProvidersRun(gz, ru, enabled, o) ==
    PirateStep(
      GazelleStep(
        GazelleStep(
          RutrackerStep(
            TorznabStep(TorrentAcc(gz, ru), enabled, o),
            enabled, o),
          enabled, "Orpheus.network", o),
        enabled, "Redacted", o),
      enabled, o)

SearchTorrent(p) ==
    /\ AtTier(p, "torrent")
    /\ \E o \in Answers(CONFIG.TORRENT_PROVIDERS) :
          LET enabled == CONFIG.TORRENT_PROVIDERS
              acc == TorrentProvidersRun(gazelleobjs, ruobj, enabled, o)
              out == Filtered(inv[p], acc.list)
              call == [enabled |-> enabled, queried |-> acc.queried, valid |-> acc.valid,
                       logins |-> acc.logins, failed |-> acc.failed, raised |-> acc.raised]
          IN /\ gazelleobjs' = acc.gz
             /\ ruobj' = acc.ru
             /\ inv' = [inv EXCEPT ![p] =
                          IF acc.raised
                          THEN [inv[p] EXCEPT !.pc = "raised", !.tcall = call,
                                              !.called = Append(@, "torrent")]
                          ELSE [Assign(inv[p], "torrent", out, FALSE)
                                  EXCEPT !.raw = acc.list, !.filtered = out, !.tcall = call]]
    /\ UNCHANGED <<snatched, albumStatus, CONFIG, fncall>>

(***************************************************************************)
(* The end of do_sorted_search: filter on matches, rank, preprocess the    *)
(* best result, dispatch it.                                               *)
(***************************************************************************)
PastTiers(p) ==
    /\ inv[p].pc = "tiers"
    /\ inv[p].step > Len(TierOrder(Branch(CONFIG)))

\* The locals of the tier phase are dead once the results are ranked.
Ranked(v, sorted) ==
    [v EXCEPT !.pc = "preprocess", !.sorted = sorted, !.ranked = TRUE,
              !.step = 1, !.results = <<>>, !.called = <<>>, !.raw = <<>>,
              !.filtered = <<>>, !.tcall = NoTorrentCall]

\* [result for result in results if result.matches], which raises TypeError on
\* None; then sort_search_results.
FilterAndSort(p) ==
    LET v == inv[p]
        matching == SelectSeq2(v.results, {r \in Range(v.results) : r.matches})
        sorted == sort_search_results(matching, CONFIG.QUALITY, v.new, v.albumlength)
    IN /\ PastTiers(p)
       /\ inv' = [inv EXCEPT ![p] =
                    IF v.resNone THEN [v EXCEPT !.pc = "raised"]
                    ELSE IF sorted = <<>> THEN [v EXCEPT !.pc = "done"]
                    ELSE Ranked(v, sorted)]
       /\ UNCHANGED <<snatched, albumStatus, CONFIG, gazelleobjs, ruobj, fncall>>

\* Payloads: None (also empty content), True, raw content, a bencoded magnet-uri.
\* What the network answers to the request preprocess makes, if it makes one.
NetAnswers == {"fail", "content", "magnet", "redirect"}

Payload(data, result) == [data |-> data, result |-> result]

\* preprocess: every path returns in the first iteration of its loop.
preprocess(resultlist, tordl, net) ==
    LET result == resultlist[1]
        fetched == IF net = "content" THEN "content" ELSE None
        torznab == IsTorznab(result.provider) /\ net # "fail"
    IN CASE result.kind = "soulseek" -> Payload("True", result)
         [] result.kind = "torrent" ->
              IF result.provider = "rutracker.org" THEN Payload(fetched, result)
              ELSE IF torznab /\ net = "magnet"
              THEN Payload("magnetdict", Result(result.title, result.size, "magnet:z1",
                                                result.provider, "magnet", result.matches))
              ELSE IF torznab /\ net = "redirect"
              THEN Payload("True", Result(result.title, result.size, "http://z/dl1",
                                          result.provider, result.kind, result.matches))
              ELSE IF torznab THEN Payload("content", result)
              ELSE IF tordl \in {1, 3} THEN Payload("True", result)
              ELSE IF IsMagnet(result.url) THEN Payload("True", result)
              ELSE Payload(fetched, result)
         [] result.kind = "magnet" -> Payload("magnetdict", result)
         [] result.kind = "bandcamp" -> Payload("True", result)
         [] OTHER -> Payload(fetched, result)

\* The answers that apply: redirects are looked at for Torznab results only.
NetAnswersFor(result) ==
    IF result.kind = "torrent" /\ IsTorznab(result.provider) THEN NetAnswers
    ELSE {"fail", "content"}

\* TORRENT_DOWNLOADER is read for torrent results only: 0 blackhole, 1 Transmission,
\* 2 uTorrent, 3 Deluge, 4 qBittorrent.
TorrentDownloadersFor(result) ==
    IF result.kind = "torrent" THEN 0..4 ELSE {0}

\* (data, result) = preprocess(sorted_search_results); if data and result: ...
Preprocess(p) ==
    LET v == inv[p]
    IN /\ v.pc = "preprocess"
       /\ \E tordl \in TorrentDownloadersFor(v.sorted[1]), net \in NetAnswersFor(v.sorted[1]) :
             LET pl == preprocess(v.sorted, tordl, net)
             IN inv' = [inv EXCEPT ![p] =
                          [v EXCEPT !.pc = IF pl.data # None THEN "send" ELSE "done",
                                    !.data = pl.data, !.cand = pl.result, !.tordl = tordl]]
       /\ UNCHANGED <<snatched, albumStatus, CONFIG, gazelleobjs, ruobj, fncall>>

(***************************************************************************)
(* send_to_downloader.  A backend behaviour says how the push (the API     *)
(* call, or the write into the blackhole directory) ends, whether the      *)
(* backend then reports a name for the download, and the seed ratio        *)
(* configured for the provider.                                            *)
(***************************************************************************)
\* The ratio is what get_seed_ratio returns for the setting configured: None, 0.0, a
\* positive or a negative float, or the setting itself when float() rejects it.
SeedRatios == {"none", "zero", "pos", "neg", "text"}

Behaviours == [push : {"ok", "reject", "raise"}, name : BOOLEAN, ratio : SeedRatios]

\* calculate_torrent_hash(link, data): bdecode of a payload that is no torrent raises.
HashRaises(url, data) == ~IsMagnet(url) /\ data # "content"

\* get_seed_ratio
SeedRatio(provider, b) ==
    IF provider \in {"rutracker.org", "Orpheus.network", "Redacted", "The Pirate Bay"}
       \/ IsTorznab(provider)
    THEN b.ratio ELSE "none"

Outcome(ret, push, torrentid, seed) ==
    [ret |-> ret, push |-> push, torrentid |-> torrentid, seed |-> seed]

Pushed(b) == CASE b.push = "ok" -> "accepted" [] b.push = "reject" -> "rejected" [] OTHER -> "raised"

\* if not <push>: return, and the try/except around the blackhole write and the
\* soulseek enqueue
CheckedPush(b) ==
    IF b.push = "ok" THEN Outcome("rows", "accepted", FALSE, "none")
    ELSE Outcome("return", Pushed(b), FALSE, "none")

\* MAGNET_LINKS == 3: torrent_to_file(download_path, data); return
EmbedMagnet(b) == Outcome("return", Pushed(b), FALSE, "none")

\* Transmission: the id returned by addTorrent is checked, then the name.
Transmission(result, b) ==
    IF b.push = "raise" THEN Outcome("raise", "raised", FALSE, "none")
    ELSE IF b.push # "ok" THEN Outcome("return", "rejected", FALSE, "none")
    ELSE IF ~b.name THEN Outcome("return", "accepted", TRUE, "none")
    ELSE Outcome("rows", "accepted", TRUE, SeedRatio(result.provider, b))

\* Deluge: as Transmission, inside try/except Exception, whose handler logs and
\* falls through to the ledger insert.
Deluge(result, b) ==
    IF b.push = "raise" THEN Outcome("rows", "raised", FALSE, "none")
    ELSE IF b.push # "ok" THEN Outcome("return", "rejected", FALSE, "none")
    ELSE IF ~b.name THEN Outcome("return", "accepted", TRUE, SeedRatio(result.provider, b))
    ELSE Outcome("rows", "accepted", TRUE, SeedRatio(result.provider, b))

\* uTorrent and qBittorrent: the result of the add call is not looked at; the id is
\* the hash computed locally, and the client knows a name only for what it accepted.
HashClient(result, data, b) ==
    IF b.push = "raise" THEN Outcome("raise", "raised", FALSE, "none")
    ELSE IF HashRaises(result.url, data) THEN Outcome("raise", Pushed(b), FALSE, "none")
    ELSE IF ~(b.name /\ b.push = "ok") THEN Outcome("return", Pushed(b), TRUE, "none")
    ELSE Outcome("rows", "accepted", TRUE, SeedRatio(result.provider, b))

Dispatch(data, result, nzbdl, tordl, magnet, b) ==
    CASE result.kind = "nzb" -> CheckedPush(b)
      [] result.kind = "bandcamp" ->
           IF b.push = "raise" THEN Outcome("raise", "raised", FALSE, "none")
           ELSE Outcome("rows", Pushed(b), FALSE, "none")
      [] result.kind = "soulseek" -> CheckedPush(b)
      [] OTHER ->
           IF tordl = 0
           THEN IF IsMagnet(result.url)
                THEN CASE magnet = 1 -> CheckedPush(b)
                       [] magnet = 2 -> CheckedPush(b)
                       [] magnet = 3 -> EmbedMagnet(b)
                       [] OTHER -> Outcome("return", "none", FALSE, "none")
                ELSE CheckedPush(b)
           ELSE IF tordl = 1 THEN Transmission(result, b)
           ELSE IF tordl = 3 THEN Deluge(result, b)
           ELSE HashClient(result, data, b)

\* The behaviours a backend can show: the NZB clients and the file writes report
\* failure or raise; the torrent clients other than Deluge and bandcamp.download are
\* taken not to raise.
BehavioursFor(result, tordl) ==
    {b \in Behaviours :
        /\ result.kind = "bandcamp" => b.push = "ok"
        /\ result.kind \in {"torrent", "magnet"} /\ tordl \in {1, 2, 4} => b.push # "raise"
        /\ result.kind \in {"nzb", "bandcamp", "soulseek"} => b.name /\ b.ratio = "none"
        /\ result.kind \in {"torrent", "magnet"} /\ tordl = 0 => b.name /\ b.ratio = "none"}

\* NZB_DOWNLOADER (0 SABnzbd, 1 NZBGet, 2 blackhole) is read for nzb results only,
\* MAGNET_LINKS (0 reject, 1 open, 2 convert, 3 embed) for magnet links sent to the
\* torrent blackhole only.
NzbDownloadersFor(result) == IF result.kind = "nzb" THEN 0..2 ELSE {0}

MagnetLinksFor(result, tordl) ==
    IF result.kind \in {"torrent", "magnet"} /\ tordl = 0 /\ IsMagnet(result.url)
    THEN 0..3 ELSE {0}

\* An insert that looks the URL up first and leaves the ledger alone when it is there.
SnatchRowsUnlessSnatched(album, result, out) ==
    IF AlreadyDownloaded(snatched, result.url) # {}
    THEN <<>>
    ELSE <<Row(album, result.url, "Snatched")>>

\* The rows written after a push that went through (lines 1166-1196):
\* seed_ratio is not None and seed_ratio != 0 and torrentid.
SnatchRows(album, result, out) ==
    <<Row(album, result.url, "Snatched")>>
    \o (IF out.seed \notin {"none", "zero"} /\ out.torrentid
        THEN <<Row(album, result.url, "Seed_Snatched")>> ELSE <<>>)

SendToDownloader(p) ==
    LET v == inv[p]
    IN /\ v.pc = "send"
       /\ \E nzbdl \in NzbDownloadersFor(v.cand), magnet \in MagnetLinksFor(v.cand, v.tordl),
             b \in BehavioursFor(v.cand, v.tordl) :
             LET out == Dispatch(v.data, v.cand, nzbdl, v.tordl, magnet, b)
                 rows == IF out.ret = "rows" THEN SnatchRows(v.album, v.cand, out) ELSE <<>>
             IN /\ snatched' = snatched \o rows
                /\ albumStatus' = IF out.ret = "rows"
                                  THEN [albumStatus EXCEPT ![v.album] = "Snatched"]
                                  ELSE albumStatus
                /\ inv' = [inv EXCEPT ![p] =
                             [v EXCEPT !.pc = IF out.ret = "raise" THEN "raised" ELSE "done",
                                       !.data = None, !.tordl = 0,
                                       !.dispatch = [push |-> out.push, rows |-> Len(rows),
                                                     marked |-> out.ret = "rows",
                                                     torrentid |-> out.torrentid,
                                                     seed |-> IF out.ret = "rows" THEN out.seed
                                                              ELSE "none",
                                                     written |-> [i \in 1..Len(rows) |->
                                                                    rows[i].Status]]]]
       /\ UNCHANGED <<CONFIG, gazelleobjs, ruobj, fncall>>

\* do_sorted_search returns, or its exception reaches the caller.
Finish(p) ==
    /\ inv[p].pc \in {"done", "raised"}
    /\ inv' = [inv EXCEPT ![p] = Idle]
    /\ UNCHANGED <<snatched, albumStatus, CONFIG, gazelleobjs, ruobj, fncall>>

Next ==
    \E p \in SeqProcs :
          \/ Start(p)
          \/ SkipTier(p)
          \/ SearchNZB(p)
          \/ SearchTorrent(p)
          \/ SearchBandcamp(p)
          \/ SearchSoulseek(p)
          \/ FilterAndSort(p)
          \/ Preprocess(p)
          \/ SendToDownloader(p)
          \/ Finish(p)

Spec == Init /\ [][Next]_vars

\* Automatic searches only.
NextNew ==
    \E p \in SeqProcs :
          \/ StartNew(p)
          \/ SkipTier(p)
          \/ SearchNZB(p)
          \/ SearchTorrent(p)
          \/ SearchBandcamp(p)
          \/ SearchSoulseek(p)
          \/ FilterAndSort(p)
          \/ Preprocess(p)
          \/ SendToDownloader(p)
          \/ Finish(p)

SpecNew == Init /\ [][NextNew]_vars

(***************************************************************************)
(* Two automatic searches of the same release running at once (the        *)
(* scheduler's search and one started from the web interface), with the    *)
(* usenet tier the only one available.                                     *)
(***************************************************************************)
InitConcurrent ==
    /\ CONFIG = [PREFER_TORRENTS |-> 0, NZB_PROVIDERS |-> TRUE, NZB_DOWNLOADERS |-> TRUE,
                 TORRENT_PROVIDERS |-> {}, BANDCAMP |-> FALSE, SOULSEEK |-> FALSE,
                 QUALITY |-> CHOOSE q \in SearchQualities : TRUE]
    /\ snatched = <<>>
    /\ albumStatus = [a \in AlbumIDs |-> "Wanted"]
    /\ gazelleobjs = [g \in GazelleProviders |-> None]
    /\ ruobj = None
    /\ inv = [p \in Procs |-> Idle]
    /\ fncall = NoCall

\* An automatic search that does not wait for the other invocation.
StartConcurrent(p) ==
    /\ inv[p].pc = "idle"
    /\ Len(snatched) < MaxSnatched
    /\ \E a \in AlbumIDs, len \in AlbumLengths :
          inv' = [inv EXCEPT ![p] = [Idle EXCEPT !.pc = "tiers", !.album = a, !.new = TRUE,
                                                !.albumlength = len]]
    /\ UNCHANGED <<snatched, albumStatus, CONFIG, gazelleobjs, ruobj, fncall>>

NextConcurrent ==
    \E p \in Procs :
          \/ StartConcurrent(p)
          \/ SkipTier(p)
          \/ SearchNZB(p)
          \/ FilterAndSort(p)
          \/ Preprocess(p)
          \/ SendToDownloader(p)
          \/ Finish(p)

SpecConcurrent == InitConcurrent /\ [][NextConcurrent]_vars

(***************************************************************************)
(* checkCompleted of the download backends (sab.py, nzbget.py,             *)
(* soulseek.py).  A backend answers with nothing, an error, a value of the *)
(* wrong type ("junk"), or a listing; an entry of a listing is junk, is    *)
(* about another download, or is about the download asked for.  Progress   *)
(* is kept as the fraction num / den.                                      *)
(***************************************************************************)
\* The longest queue, history or directory listing, and the most files of a folder.
MaxSlots == 2
MaxFiles == 2

SeqsUpTo(S, n) == UNION {[1..k -> S] : k \in 0..n}

\* A handler that lets the exception through.
CatchNothing(outcome) == outcome

\* except Exception as e: logger.error(...); return None
CatchAll(outcome) == IF outcome.kind = "raise" THEN ReturnedNone ELSE outcome

\* {'completed': ..., 'progress': ..., 'status': ..., 'name': ...}
CompletionStatus(completed, num, den, status) ==
    Returned([completed |-> completed, progress |-> [num |-> num, den |-> den],
              status |-> status])

\* An iteration that ends with continue, and a lookup that found nothing.
Continue == [kind |-> "continue", value |-> <<>>]

\* The outcome of a for loop whose iterations end as given: the first return.
FirstReturn(outs) ==
    LET hits == {i \in 1..Len(outs) : outs[i].kind # "continue"}
    IN IF hits = {} THEN Continue
       ELSE outs[CHOOSE i \in hits : \A j \in hits : i <= j]

Listing(entries) == [kind |-> "ok", entries |-> entries]
NoListing(kind) == [kind |-> kind, entries |-> <<>>]

\* float(progress_str) for the percentage strings considered.
Percentages == {"-5", "50", "150", "abc"}
ParsesAsFloat(str) == str \in {"-5", "50", "150"}
Float(str) == CASE str = "-5" -> 0 - 5 [] str = "50" -> 50 [] str = "150" -> 150 [] OTHER -> 0

SabSlot(kind, percentage, status) == [kind |-> kind, percentage |-> percentage, status |-> status]
SabQueueSlots ==
    {SabSlot("junk", "abc", ""), SabSlot("other", "50", "Downloading")}
    \cup {SabSlot("match", pc, "Downloading") : pc \in Percentages}
SabHistorySlots ==
    {SabSlot("junk", "abc", ""), SabSlot("other", "abc", "Completed"),
     SabSlot("match", "abc", "Completed"), SabSlot("match", "abc", "Failed")}

\* sab_api_call raises, returns False, a dict with 'error', a value that is no dict,
\* or the listing.
SabResponses(slots) ==
    {NoListing(k) : k \in {"raise", "none", "error", "junk"}}
    \cup {Listing(e) : e \in SeqsUpTo(slots, MaxSlots)}

\* One iteration over the queue slots (sab.py 130-151).
SabQueueSlot(slot) ==
    IF slot.kind # "match" THEN Continue
    ELSE CompletionStatus(FALSE,
                          IF ParsesAsFloat(slot.percentage) THEN Float(slot.percentage) ELSE 0,
                          100, slot.status)

\* One iteration over the history slots (sab.py 168-188).
SabHistorySlot(slot) ==
    IF slot.kind # "match" THEN Continue
    ELSE CompletionStatus(slot.status = "Completed",
                          IF slot.status = "Completed" THEN 1 ELSE 0, 1, slot.status)

SabLookup(response, outs) ==
    CASE response.kind \in {"raise", "junk"} -> Raised
      [] response.kind = "error" -> ReturnedNone
      [] response.kind = "none" -> Continue
      [] OTHER -> FirstReturn(outs)

\* A check that looks into the history before the queue.
sab_checkCompleted_history_first(nzb_id, queue, history) ==
    IF nzb_id = "" THEN ReturnedNone
    ELSE CatchAll(
           LET q == SabLookup(queue, [i \in 1..Len(queue.entries) |->
                                        SabQueueSlot(queue.entries[i])])
               h == SabLookup(history, [i \in 1..Len(history.entries) |->
                                          SabHistorySlot(history.entries[i])])
           IN IF h.kind # "continue" THEN h
              ELSE IF q.kind # "continue" THEN q
              ELSE ReturnedNone)

sab_checkCompleted(nzb_id, queue, history) ==
    IF nzb_id = "" THEN ReturnedNone
    ELSE CatchAll(
           LET q == SabLookup(queue, [i \in 1..Len(queue.entries) |->
                                        SabQueueSlot(queue.entries[i])])
               h == SabLookup(history, [i \in 1..Len(history.entries) |->
                                          SabHistorySlot(history.entries[i])])
           IN IF q.kind # "continue" THEN q
              ELSE IF h.kind # "continue" THEN h
              ELSE ReturnedNone)

NzbgetItem(kind, typed, total, remaining, status) ==
    [kind |-> kind, typed |-> typed, total |-> total, remaining |-> remaining,
     status |-> status]
NzbgetQueueItems ==
    {NzbgetItem("junk", FALSE, 0, 0, ""), NzbgetItem("other", TRUE, 10, 5, "DOWNLOADING"),
     NzbgetItem("match", FALSE, 0, 0, "DOWNLOADING")}
    \cup {NzbgetItem("match", TRUE, t, r, "DOWNLOADING") : t \in {0, 10}, r \in {0 - 5, 5, 20}}
NzbgetHistoryItems ==
    {NzbgetItem("junk", FALSE, 0, 0, ""), NzbgetItem("other", TRUE, 0, 0, "SUCCESS"),
     NzbgetItem("match", TRUE, 0, 0, "SUCCESS"), NzbgetItem("match", TRUE, 0, 0, "FAILURE")}

\* listgroups() and history() raise a Fault or another exception, return nothing, a
\* value that cannot be iterated, or the listing.
NzbgetResponses(items) ==
    {NoListing(k) : k \in {"fault", "raise", "none", "junk"}}
    \cup {Listing(e) : e \in SeqsUpTo(items, MaxSlots)}

Max(a, b) == IF a >= b THEN a ELSE b

\* One iteration over the queue (nzbget.py 76-104).
NzbgetQueueItem(item) ==
    IF item.kind # "match" THEN Continue
    ELSE IF item.typed /\ item.total > 0
    THEN CompletionStatus(FALSE, Max(0, item.total - item.remaining), item.total, item.status)
    ELSE CompletionStatus(FALSE, 0, 1, item.status)

\* One iteration over the history (nzbget.py 118-137).
NzbgetHistoryItem(item) ==
    IF item.kind # "match" THEN Continue
    ELSE CompletionStatus(item.status = "SUCCESS",
                          IF item.status = "SUCCESS" THEN 1 ELSE 0, 1, item.status)

NzbgetLookup(response, outs) ==
    CASE response.kind \in {"fault", "raise"} -> ReturnedNone
      [] response.kind = "junk" -> Raised
      [] response.kind = "none" -> Continue
      [] OTHER -> FirstReturn(outs)

nzbget_checkCompleted(nzb_id, host, queue, history) ==
    IF nzb_id = "" \/ ~host THEN ReturnedNone
    ELSE CatchAll(
           LET q == NzbgetLookup(queue, [i \in 1..Len(queue.entries) |->
                                           NzbgetQueueItem(queue.entries[i])])
               h == NzbgetLookup(history, [i \in 1..Len(history.entries) |->
                                             NzbgetHistoryItem(history.entries[i])])
           IN IF q.kind # "continue" THEN q
              ELSE IF h.kind # "continue" THEN h
              ELSE ReturnedNone)

\* The files of the folder: succeeded, errored, requested more than 24 hours ago,
\* in progress, or junk (no dict, or a requestedAt that does not parse).
SoulseekFileStates == {"succeeded", "errored", "stale", "active", "junk"}
SoulseekFiles == {NoListing("junk")} \cup {Listing(f) : f \in SeqsUpTo(SoulseekFileStates, MaxFiles)}
SoulseekDirectories == SeqsUpTo({"junk", "other", "match"}, MaxSlots)

\* The index of the directory whose file loop runs to its break: the first match
\* whose 'files' can be iterated (soulseek.py 233-256).
SoulseekCounted(directories, files) ==
    {i \in 1..Len(directories) :
        /\ directories[i] = "match" /\ files.kind = "ok"
        /\ \A j \in 1..(i - 1) : directories[j] # "match"}

Count(files, states) == Cardinality({i \in 1..Len(files) : files[i] \in states})

\* get_downloads raises, returns None, a value that is no dict, or the downloads.
soulseek_checkCompleted(client, downloads, directories, files) ==
    CatchAll(
      IF client = "raise" \/ downloads \in {"raise", "junk"} THEN Raised
      ELSE IF client = "none" \/ downloads = "none" THEN ReturnedNone
      ELSE LET counted == SoulseekCounted(directories, files) # {}
               fs == IF counted THEN files.entries ELSE <<>>
               total_count == Count(fs, SoulseekFileStates \ {"junk"})
               completed_count == Count(fs, {"succeeded"})
               errored_count == Count(fs, {"errored", "stale", "junk"})
               completed == completed_count = total_count /\ errored_count = 0
           IN IF total_count = 0 THEN ReturnedNone
              ELSE CompletionStatus(completed, completed_count, total_count,
                                    IF errored_count > 0 THEN "errored"
                                    ELSE IF completed THEN "completed" ELSE "downloading"))

\* The search engine at rest, while the functions checked on their own are called.
InitCall ==
    /\ CONFIG = [PREFER_TORRENTS |-> 0, NZB_PROVIDERS |-> TRUE, NZB_DOWNLOADERS |-> TRUE,
                 TORRENT_PROVIDERS |-> {}, BANDCAMP |-> FALSE, SOULSEEK |-> TRUE,
                 QUALITY |-> CHOOSE q \in SearchQualities : TRUE]
    /\ snatched = <<>>
    /\ albumStatus = [a \in AlbumIDs |-> "Wanted"]
    /\ gazelleobjs = [g \in GazelleProviders |-> None]
    /\ ruobj = None
    /\ inv = [p \in Procs |-> Idle]
    /\ fncall = NoCall

\* No call is in progress.
AtRest == fncall.fn = "none"

Called(fn, args, out) ==
    /\ fncall' = [fn |-> fn, args |-> args, out |-> out]
    /\ UNCHANGED <<snatched, albumStatus, CONFIG, gazelleobjs, ruobj, inv>>

\* The caller takes the outcome.
Return ==
    /\ fncall.fn # "none"
    /\ fncall' = NoCall
    /\ UNCHANGED <<snatched, albumStatus, CONFIG, gazelleobjs, ruobj, inv>>

SabCheckCompleted ==
    /\ AtRest
    /\ \E nzb_id \in {"", "nzo1"}, queue \in SabResponses(SabQueueSlots),
          history \in SabResponses(SabHistorySlots) :
           Called("sab.checkCompleted", <<nzb_id, queue, history>>,
                  sab_checkCompleted(nzb_id, queue, history))

NzbgetCheckCompleted ==
    /\ AtRest
    /\ \E nzb_id \in {"", "17"}, host \in BOOLEAN, queue \in NzbgetResponses(NzbgetQueueItems),
          history \in NzbgetResponses(NzbgetHistoryItems) :
           Called("nzbget.checkCompleted", <<nzb_id, host, queue, history>>,
                  nzbget_checkCompleted(nzb_id, host, queue, history))

SoulseekCheckCompleted ==
    /\ AtRest
    /\ \E client \in {"raise", "none", "client"}, downloads \in {"raise", "none", "junk", "dict"},
          directories \in SoulseekDirectories, files \in SoulseekFiles :
           Called("soulseek.checkCompleted", <<client, downloads, directories, files>>,
                  soulseek_checkCompleted(client, downloads, directories, files))

NextCompleted ==
    \/ SabCheckCompleted
    \/ NzbgetCheckCompleted
    \/ SoulseekCheckCompleted
    \/ Return

SpecCompleted == InitCall /\ [][NextCompleted]_vars

(***************************************************************************)
(* sort_search_results called on its own.                                  *)
(***************************************************************************)
\* The longest result list ranked.
MaxResults == 3

\* Results that differ in matches, in priority (the provider is a preferred word or
\* not), in size and in being lossless.
SortResults ==
    {Result(t, sz, "http://x/1", pr, "nzb", m) :
        t \in {"album", "album flac"}, sz \in {100, 200}, pr \in {"newznab", "headphones"},
        m \in BOOLEAN}

\* Highest quality, target bitrate without a bitrate, lossless only, target bitrate
\* with and without the lossless fallback.
SortQualities ==
    {QualityCfg(1, 0, 0, 0, FALSE, 0, 0, <<"newznab">>),
     QualityCfg(2, 0, 0, 0, FALSE, 0, 0, <<"newznab">>),
     QualityCfg(3, 0, 0, 0, FALSE, 0, 0, <<>>),
     QualityCfg(2, 1, 20, 50, TRUE, 0, 0, <<"newznab">>),
     QualityCfg(2, 1, 20, 50, FALSE, 0, 0, <<"newznab">>)}

SortSearchResults ==
    /\ AtRest
    /\ \E resultlist \in SeqsUpTo(SortResults, MaxResults), cfg \in SortQualities,
          new \in BOOLEAN, albumlength \in {1000} :
           Called("sort_search_results", <<resultlist, cfg, new, albumlength>>,
                  Returned(sort_search_results(resultlist, cfg, new, albumlength)))

NextSort ==
    \/ SortSearchResults
    \/ Return

SpecSort == InitCall /\ [][NextSort]_vars

(***************************************************************************)
(* calculate_torrent_hash called on its own.  A string is a sequence of    *)
(* one-character strings.                                                  *)
(***************************************************************************)
\* An exception that leaves a call, with its class.
RaisedError(class) == [kind |-> "raise", value |-> <<class>>]

LowerCase == <<"a", "b", "c", "d", "e", "f", "m", "l">>
UpperCase == <<"A", "B", "C", "D", "E", "F", "M", "L">>

IndexIn(c, letters) == CHOOSE i \in 1..Len(letters) : letters[i] = c

\* str.upper and str.lower, character by character.
upper(s) ==
    [i \in 1..Len(s) |->
        IF s[i] \in Range(LowerCase) THEN UpperCase[IndexIn(s[i], LowerCase)] ELSE s[i]]

lower(s) ==
    [i \in 1..Len(s) |->
        IF s[i] \in Range(UpperCase) THEN LowerCase[IndexIn(s[i], UpperCase)] ELSE s[i]]

\* The base32 alphabet of b32decode (casefold off): upper-case letters and 2..7.
Base32Alphabet == Range(UpperCase) \cup {"2", "3", "4", "5", "6", "7"}

\* b16encode(b32decode(h)): the upper-case hex digits of the decoded bytes; the digits
\* stand in for the forty the real decoding gives.
Base16OfBase32(chars) ==
    [i \in 1..Len(chars) |->
        CASE chars[i] = "M" -> "6"
          [] chars[i] = "F" -> "C"
          [] chars[i] = "2" -> "D"
          [] OTHER -> "0"]

\* What r"urn:btih:([\w]{32,40})" captures: len is the length of the captured text and
\* chars stands in for its characters.
Btih(len, chars) == [len |-> len, chars |-> chars]

BtihMatches ==
    {Btih(40, <<"a", "1", "f">>), Btih(40, <<"A", "1", "f">>), Btih(40, <<"A", "1", "F">>),
     Btih(32, <<"M", "F", "2">>), Btih(32, <<"m", "f", "2">>), Btih(32, <<"M", "F", "1">>)}

\* A link: whether it starts with "magnet:" and what the btih pattern finds in it.
TorrentLinks ==
    {[magnet |-> TRUE, findall |-> <<h>>] : h \in BtihMatches}
        \cup {[magnet |-> TRUE, findall |-> <<>>], [magnet |-> FALSE, findall |-> <<>>]}

\* The data argument: None, empty bytes, a torrent file, a bencoded dictionary without
\* an "info" entry.
TorrentData == {"none", "empty", "torrent", "noinfo"}

\* hexdigest of the sha1 of the torrent's info dictionary: lower-case hex digits.
Sha1HexDigest == <<"c", "0", "d", "e">>

calculate_torrent_hash(link, data) ==
    IF link.magnet
    THEN IF link.findall = <<>>
         THEN RaisedError("IndexError")
         ELSE LET torrent_hash == link.findall[1]
              IN  IF torrent_hash.len = 32
                  THEN IF Range(torrent_hash.chars) \subseteq Base32Alphabet
                       THEN Returned(upper(lower(Base16OfBase32(torrent_hash.chars))))
                       ELSE RaisedError("ValueError")
                  ELSE Returned(upper(torrent_hash.chars))
    ELSE IF data \notin {"none", "empty"}
         THEN IF data = "noinfo"
              THEN RaisedError("KeyError")
              ELSE Returned(upper(Sha1HexDigest))
         ELSE RaisedError("ValueError")

CalculateTorrentHash ==
    /\ AtRest
    /\ \E link \in TorrentLinks, data \in TorrentData :
           Called("calculate_torrent_hash", <<link, data>>, calculate_torrent_hash(link, data))

(***************************************************************************)
(* The search term of searchNZB and searchTorrent, built on its own.       *)
(***************************************************************************)
\* The longest artist name drawn from the alphabet.
MaxLen == 3

\* The length below which a name counts as short.
ShortName == 4

RECURSIVE replace(_, _, _)
\* str.replace: every occurrence of old, found from the left without overlap.
replace(s, old, new) ==
    IF Len(s) < Len(old)
    THEN s
    ELSE IF SubSeq(s, 1, Len(old)) = old
         THEN new \o replace(SubSeq(s, Len(old) + 1, Len(s)), old, new)
         ELSE <<Head(s)>> \o replace(Tail(s), old, new)

RECURSIVE replace_all(_, _)
\* The replacements of the dictionary, applied one after another in its order.
replace_all(text, dic) ==
    IF dic = <<>>
    THEN text
    ELSE replace_all(replace(text, Head(dic)[1], Head(dic)[2]), Tail(dic))

NzbReplacements ==
    << <<(<<".", ".", ".">>), <<>>>>,
       <<(<<" ", "&", " ">>), <<" ">>>>,
       <<(<<" ", "=", " ">>), <<" ">>>>,
       <<(<<"?">>), <<>>>>,
       <<(<<"$">>), <<"s">>>>,
       <<(<<" ", "+", " ">>), <<" ">>>>,
       <<(<<"\"">>), <<>>>>,
       <<(<<",">>), <<>>>>,
       <<(<<"*">>), <<>>>>,
       <<(<<".">>), <<>>>>,
       <<(<<":">>), <<>>>> >>

TorrentReplacements ==
    << <<(<<".", ".", ".">>), <<>>>>,
       <<(<<" ", "&", " ">>), <<" ">>>>,
       <<(<<" ", "=", " ">>), <<" ">>>>,
       <<(<<"?">>), <<>>>>,
       <<(<<"$">>), <<"s">>>>,
       <<(<<" ", "+", " ">>), <<" ">>>>,
       <<(<<"\"">>), <<>>>>,
       <<(<<",">>), <<" ">>>>,
       <<(<<"*">>), <<>>>> >>

RECURSIVE unidecode(_)
\* The ASCII transliteration: an accented e becomes e, ASCII stays as it is.
unidecode(s) ==
    IF s = <<>>
    THEN <<>>
    ELSE (IF Head(s) = "e_acute" THEN <<"e">> ELSE <<Head(s)>>) \o unidecode(Tail(s))

RECURSIVE lstrip(_)
lstrip(s) == IF s # <<>> /\ Head(s) = " " THEN lstrip(Tail(s)) ELSE s

RECURSIVE rstrip(_)
rstrip(s) ==
    IF s # <<>> /\ s[Len(s)] = " " THEN rstrip(SubSeq(s, 1, Len(s) - 1)) ELSE s

\* str.strip
strip(s) == rstrip(lstrip(s))

\* re.sub(r'[\.\-\/]', r' ', s)
BadCharacters(s) == [i \in 1..Len(s) |-> IF s[i] \in {".", "-", "/"} THEN " " ELSE s[i]]

\* sub in s
In(sub, s) == \E i \in 0..(Len(s) - Len(sub)) : SubSeq(s, i + 1, i + Len(sub)) = sub

\* cleanalbum and cleanartist of searchNZB
NzbClean(name) == strip(unidecode(replace_all(name, NzbReplacements)))

\* cleanalbum and cleanartist of searchTorrent
TorrentClean(name) == unidecode(replace_all(name, TorrentReplacements))

VariousArtists ==
    <<"V", "a", "r", "i", "o", "u", "s", " ", "A", "r", "t", "i", "s", "t", "s">>

\* The term before its bad characters are replaced.
ComposeTerm(album, cleanartist, cleanalbum) ==
    IF album.SearchTerm # <<>>
    THEN album.SearchTerm
    ELSE IF album.Type = "part of"
    THEN cleanalbum \o <<" ">> \o album.year
    ELSE IF \/ In(album.ArtistName, album.AlbumTitle)
            \/ Len(album.ArtistName) < ShortName
            \/ Len(album.AlbumTitle) < ShortName
    THEN cleanartist \o <<" ">> \o cleanalbum \o <<" ">> \o album.year
    ELSE IF album.ArtistName = VariousArtists
    THEN cleanalbum \o <<" ">> \o album.year
    ELSE cleanartist \o <<" ">> \o cleanalbum

\* The terms of searchNZB; it has no usersearchterm.
NzbTerm(album) ==
    LET cleanalbum == NzbClean(album.AlbumTitle)
        cleanartist == NzbClean(album.ArtistName)
        term == ComposeTerm(album, cleanartist, cleanalbum)
    IN  [term |-> BadCharacters(term), artistterm |-> BadCharacters(cleanartist),
         usersearchterm |-> <<>>]

\* The terms of searchTorrent; usersearchterm goes to rutracker and the gazelle sites.
TorrentTerm(album) ==
    LET cleanalbum == TorrentClean(album.AlbumTitle)
        cleanartist == TorrentClean(album.ArtistName)
        term == ComposeTerm(album, cleanartist, cleanalbum)
    IN  [term |-> BadCharacters(term), artistterm |-> BadCharacters(cleanartist),
         usersearchterm |-> IF album.SearchTerm # <<>> THEN term ELSE <<>>]

\* The characters artist names are drawn from: a letter, a space, replaced
\* punctuation, bad characters and a letter to transliterate.
TermAlphabet == {"a", " ", "&", "$", "-", ".", "e_acute"}

TermArtists ==
    SeqsUpTo(TermAlphabet, MaxLen) \cup {VariousArtists, <<"a", "b", "b", "a">>}

\* A short title, a long one, one with replaced punctuation, one that holds an artist.
TermTitles ==
    {<<"I", "V">>, <<"l", "i", "v", "e", "s">>, <<"a", " ", "&", " ", "b", "-", "c">>,
     <<"a", "b", "b", "a", " ", "2">>}

TermAlbums ==
    [ArtistName : TermArtists, AlbumTitle : TermTitles,
     SearchTerm : {<<>>, <<"a", "c", "/", "d", "c">>, <<"a", "b", "b", "a">>},
     Type : {"Album", "part of"}, year : {<<"2", "0", "0", "1">>}]

\* searchNZB up to its search term.
BuildNzbTerm ==
    /\ AtRest
    /\ \E album \in TermAlbums :
           Called("searchNZB", <<album>>, Returned(NzbTerm(album)))

\* searchTorrent up to its search term.
BuildTorrentTerm ==
    /\ AtRest
    /\ \E album \in TermAlbums :
           Called("searchTorrent", <<album>>, Returned(TorrentTerm(album)))

NextTerm ==
    \/ CalculateTorrentHash
    \/ BuildNzbTerm
    \/ BuildTorrentTerm
    \/ Return

SpecTerm == InitCall /\ [][NextTerm]_vars

(***************************************************************************)
(* send_to_downloader writing the job file into a blackhole directory.     *)
(***************************************************************************)
\* The longest payload, in chunks.
MaxChunks == 2

\* A file of the directory: whether it is there, and its content.
File(content) == [exists |-> TRUE, content |-> content]
NoFile == [exists |-> FALSE, content |-> <<>>]

\* The payloads written: data is not empty, or preprocess had returned no data.
BlackholeData == SeqsUpTo({"b1", "b2"}, MaxChunks) \ {<<>>}

\* How the write goes: through, open() fails, or write() fails after `at` chunks
\* reached the file.
IoOutcomes(data) ==
    {[fail |-> "none", at |-> Len(data)], [fail |-> "open", at |-> 0]}
        \cup {[fail |-> "write", at |-> k] : k \in 0..(Len(data) - 1)}

\* with open(path, 'wb') as fp: fp.write(data) -- open truncates or creates the
\* file, and leaving the block closes it.
OpenAndWrite(before, data, io) ==
    IF io.fail = "open" THEN before ELSE File(SubSeq(data, 1, io.at))

Blackhole(file, row, umask, mode) ==
    [file |-> file, row |-> row, umask |-> umask, mode |-> mode]

\* The usenet blackhole: umask set, file written, umask set back; except Exception:
\* return.  row says whether the call goes on to the ledger insert.
nzb_blackhole(before, data, io) ==
    Blackhole(OpenAndWrite(before, data, io), io.fail = "none",
              IF io.fail = "none" THEN "restored" ELSE "changed", "default")

\* FILE_PERMISSIONS_ENABLED off, or on with os.chmod going through or raising OSError.
Permissions == {"disabled", "chmod", "oserror"}

\* torrent_to_file: None on IOError, True otherwise, also when chmod fails.
torrent_to_file(before, data, io, perms) ==
    [file |-> OpenAndWrite(before, data, io),
     ret |-> io.fail = "none",
     mode |-> IF io.fail = "none" /\ perms = "chmod" THEN "configured" ELSE "default"]

\* The torrent blackhole: if not torrent_to_file(download_path, data): return
torrent_blackhole(before, data, io, perms) ==
    LET written == torrent_to_file(before, data, io, perms)
    IN Blackhole(written.file, written.ret, "unchanged", written.mode)

WriteNzbBlackhole ==
    /\ AtRest
    /\ \E before \in {NoFile, File(<<"old">>)}, data \in BlackholeData :
          \E io \in IoOutcomes(data) :
             Called("send_to_downloader", <<"nzb", before, data, io>>,
                    Returned(nzb_blackhole(before, data, io)))

WriteTorrentBlackhole ==
    /\ AtRest
    /\ \E before \in {NoFile, File(<<"old">>)}, data \in BlackholeData :
          \E io \in IoOutcomes(data), perms \in Permissions :
             Called("send_to_downloader", <<"torrent", before, data, io, perms>>,
                    Returned(torrent_blackhole(before, data, io, perms)))

NextBlackhole ==
    \/ WriteNzbBlackhole
    \/ WriteTorrentBlackhole
    \/ Return

SpecBlackhole == InitCall /\ [][NextBlackhole]_vars

(***************************************************************************)
(* soulseek.execute_search: the search is posted, its state is polled      *)
(* every two seconds until it reports isComplete, the responses are        *)
(* fetched.                                                                *)
(***************************************************************************)
\* The number of polls up to which they are counted.
MaxPolls == 3

\* A call that has not returned: where it is, and the polls it has made.
Running(pc, polls) == [kind |-> "running", value |-> <<pc, polls>>]

\* search_text: artist and album, the year if given, " flac" or " mp3".
SearchText(year, losslessOnly, allow_lossless) ==
    <<"artist", "album">>
        \o (IF year # None THEN <<year>> ELSE <<>>)
        \o (IF losslessOnly THEN <<"flac">> ELSE IF ~allow_lossless THEN <<"mp3">> ELSE <<>>)

\* What search_responses returns: a list of responses, each a user's files.
SearchResponses == {<<>>, <<"user1">>, <<"user1", "user2">>}

InExecuteSearch(pc) ==
    /\ fncall.fn = "soulseek.execute_search"
    /\ fncall.out.kind = "running"
    /\ fncall.out.value[1] = pc

\* client.searches.search_text(searchText=search_text, filterResponses=True)
PostSearch ==
    /\ AtRest
    /\ \E year \in {None, "2001"}, losslessOnly \in BOOLEAN, allow_lossless \in BOOLEAN :
           Called("soulseek.execute_search",
                  <<SearchText(year, losslessOnly, allow_lossless)>>, Running("poll", 0))

\* while not client.searches.state(id=search_id).get('isComplete')
PollState ==
    /\ InExecuteSearch("poll")
    /\ \E isComplete \in BOOLEAN :
           LET polls == fncall.out.value[2]
               counted == IF polls < MaxPolls THEN polls + 1 ELSE polls
           IN Called(fncall.fn, fncall.args,
                     Running(IF isComplete THEN "responses" ELSE "sleep", counted))

\* time.sleep(2)
Sleep ==
    /\ InExecuteSearch("sleep")
    /\ Called(fncall.fn, fncall.args, Running("poll", fncall.out.value[2]))

\* return client.searches.search_responses(id=search_id)
FetchResponses ==
    /\ InExecuteSearch("responses")
    /\ \E responses \in SearchResponses :
           Called(fncall.fn, fncall.args, Returned(<<responses, fncall.out.value[2]>>))

\* The caller takes what execute_search returned.
ReturnSearch ==
    /\ fncall.fn = "soulseek.execute_search"
    /\ fncall.out.kind = "value"
    /\ Return

NextExecuteSearch ==
    \/ PostSearch
    \/ PollState
    \/ Sleep
    \/ FetchResponses
    \/ ReturnSearch

\* Every step of the call is taken when it is its turn: the thread is scheduled and
\* the requests are answered.
SpecExecuteSearch ==
    /\ InitCall
    /\ [][NextExecuteSearch]_vars
    /\ WF_vars(PollState)
    /\ WF_vars(Sleep)
    /\ WF_vars(FetchResponses)

(***************************************************************************)
(* more_filtering called on its own.                                       *)
(***************************************************************************)
\* Results below the low limit (100), inside the limits (150), at the high limit
\* (192) and above it (200) for an album of 1000 ms at 1 kbps with buffers of 20%
\* and 50%, lossless by their title or not.
FilterResults ==
    {Result(t, sz, "http://x/1", "newznab", "nzb", TRUE) :
        t \in {"album", "album flac"}, sz \in {100, 150, 192, 200}}

\* Target bitrate with each buffer configured or not and the lossless fallback on or
\* off, and highest quality.
FilterQualities ==
    {QualityCfg(2, 1, low, high, allow, 0, 0, <<>>) :
        low \in {0, 20}, high \in {0, 50}, allow \in BOOLEAN}
    \cup {QualityCfg(1, 0, 0, 0, FALSE, 0, 0, <<>>)}

MoreFiltering ==
    /\ AtRest
    /\ \E results \in SeqsUpTo(FilterResults, MaxResults), cfg \in FilterQualities,
          albumlength \in {0, 1000}, new \in BOOLEAN,
          ledger \in {<<>>, <<Row("a1", "http://x/1", "Snatched")>>} :
           Called("more_filtering", <<results, cfg, albumlength, new, ledger>>,
                  Returned(more_filtering(results, cfg, albumlength, new, ledger)))

NextFilter ==
    \/ MoreFiltering
    \/ Return

SpecFilter == InitCall /\ [][NextFilter]_vars

(***************************************************************************)
(* verifyresult called on its own, and as searchSoulseek calls it.         *)
(***************************************************************************)
\* re.IGNORECASE | re.UNICODE, which re.split receives as its maxsplit.
MaxSplit == 34

\* The characters that are not word characters (\W), and string.punctuation.
NonWord == {" ", "!", "$", "-", ".", "/", "&"}
Punctuation == {"!", "$", "-", ".", "/", "&", "_"}

\* The first position of s that holds a character of chars, 0 if there is none.
FirstOf(s, chars) ==
    LET hits == {i \in 1..Len(s) : s[i] \in chars}
    IN IF hits = {} THEN 0 ELSE CHOOSE i \in hits : \A j \in hits : i <= j

RECURSIVE split(_, _)
\* re.split(r'\W', s, maxsplit) for maxsplit > 0: after maxsplit splits the rest of
\* the string is the last element.
split(s, maxsplit) ==
    LET i == FirstOf(s, NonWord)
    IN IF maxsplit = 0 \/ i = 0 THEN <<s>>
       ELSE <<SubSeq(s, 1, i - 1)>> \o split(SubSeq(s, i + 1, Len(s)), maxsplit - 1)

\* helpers.has_token: the token occurs in the title as a separate word, whatever
\* the case of its letters.
has_token(title, token) ==
    /\ token # <<>>
    /\ \E i \in 1..(Len(title) - Len(token) + 1) :
          /\ lower(SubSeq(title, i, i + Len(token) - 1)) = lower(token)
          /\ i = 1 \/ title[i - 1] \in NonWord
          /\ i + Len(token) > Len(title) \/ title[i + Len(token)] \in NonWord

\* ''.join(c for c in token if c not in string.punctuation)
cleantoken(token) == SelectSeq(token, LAMBDA c : c \notin Punctuation)

\* replace_all(token, {'!': 'i', '$': 's'})
dumbtoken(token) == replace_all(token, << <<(<<"!">>), <<"i">>>>, <<(<<"$">>), <<"s">>>> >>)

\* One round of the token loop: TRUE when the token does not reject the title.
TokenFound(title, token) ==
    \/ token = <<>>
    \/ token \in {<<"V", "a", "r", "i", "o", "u", "s">>, <<"A", "r", "t", "i", "s", "t", "s">>,
                  <<"V", "A">>}
    \/ has_token(title, token)
    \/ has_token(title, cleantoken(token))
    \/ has_token(title, dumbtoken(token))

\* word.lower() in title.lower()
InLower(word, title) == In(lower(word), lower(title))

VerifyCfg(quality, allow, ignored, required, clean) ==
    [PREFERRED_QUALITY |-> quality, PREFERRED_BITRATE_ALLOW_LOSSLESS |-> allow,
     IGNORED_WORDS |-> ignored, REQUIRED_WORDS |-> required, IGNORE_CLEAN_RELEASES |-> clean]

\* REQUIRED_WORDS is a list of words, each a list of alternatives (a single one if
\* the word holds no ' OR ').
verifyresult(rawtitle, term, lossless, cfg) ==
    LET title == [i \in 1..Len(rawtitle) |->
                    IF rawtitle[i] \in {".", "-", "/", "_"} THEN " " ELSE rawtitle[i]]
        tokens == split(term, MaxSplit)
    IN /\ ~(~InLower(<<"r", "e", "m", "i", "x">>, term)
            /\ InLower(<<"r", "e", "m", "i", "x">>, title))
       /\ ~(cfg.PREFERRED_QUALITY = 0 /\ InLower(<<"f", "l", "a", "c">>, title) /\ ~lossless)
       /\ \A i \in 1..Len(cfg.IGNORED_WORDS) : ~InLower(cfg.IGNORED_WORDS[i], title)
       /\ \A i \in 1..Len(cfg.REQUIRED_WORDS) :
             \E j \in 1..Len(cfg.REQUIRED_WORDS[i]) : InLower(cfg.REQUIRED_WORDS[i][j], title)
       /\ cfg.IGNORE_CLEAN_RELEASES =>
             \A word \in {<<"c", "l", "e", "a", "n">>, <<"e", "d", "i", "t", "e", "d">>,
                           <<"c", "e", "n", "s", "o", "r", "e", "d">>} :
                 ~(InLower(word, title) /\ ~InLower(word, term))
       /\ \A i \in 1..Len(tokens) : TokenFound(title, tokens[i])

\* n times the word "a" and a space.
Filler(n) == [i \in 1..(2 * n) |-> IF i % 2 = 1 THEN "a" ELSE " "]

VerifyTitles ==
    {<<"a", " ", "x">>, <<"a", " ", "x", "i">>, <<"a", ".", "x", "_", "b">>,
     <<"a", " ", "x", " ", "f", "l", "a", "c">>, <<"a", " ", "x", " ", "F", "L", "A", "C">>,
     <<"a", " ", "x", " ", "r", "e", "m", "i", "x">>,
     <<"a", " ", "x", " ", "c", "l", "e", "a", "n">>, <<"b">>}

\* Terms of two tokens and of thirty-six, with and without a '!' or a '$'.
VerifyTerms ==
    {Filler(n) \o tail :
        n \in {1, MaxSplit},
        tail \in {<<"x">>, <<"x", "!">>, <<"x", "$">>, <<"x", " ", "b">>, <<"x", "_", "b">>}}

VerifyCfgs ==
    {VerifyCfg(quality, allow, ignored, required, clean) :
        quality \in 0..3,
        allow \in BOOLEAN,
        ignored \in {<<>>, << <<"b">> >>},
        required \in {<<>>, << <<(<<"x">>), <<"b">>>> >>},
        clean \in BOOLEAN}

VerifyResult ==
    /\ AtRest
    /\ \E title \in VerifyTitles, term \in VerifyTerms, lossless \in BOOLEAN,
          cfg \in VerifyCfgs :
           Called("verifyresult", <<title, term, lossless, cfg>>,
                  Returned(verifyresult(title, term, lossless, cfg)))

SoulseekReplacements ==
    << <<(<<".", ".", ".">>), <<>>>>,
       <<(<<" ", "&", " ">>), <<" ">>>>,
       <<(<<" ", "=", " ">>), <<" ">>>>,
       <<(<<"?">>), <<>>>>,
       <<(<<"$">>), <<>>>>,
       <<(<<" ", "+", " ">>), <<" ">>>>,
       <<(<<"\"">>), <<>>>>,
       <<(<<",">>), <<>>>>,
       <<(<<"*">>), <<>>>>,
       <<(<<".">>), <<>>>>,
       <<(<<":">>), <<>>>> >>

\* cleanalbum and cleanartist of searchSoulseek
SoulseekClean(name) == strip(unidecode(replace_all(name, SoulseekReplacements)))

\* What soulseek.search is asked for: the user's term, or the artist and the album.
SoulseekSearchText(album) ==
    IF album.SearchTerm # <<>> THEN album.SearchTerm
    ELSE SoulseekClean(album.ArtistName) \o <<" ">> \o SoulseekClean(album.AlbumTitle)

\* The term searchSoulseek hands to verifyresult: the user's term, or ''.
SoulseekVerifyTerm(album) == album.SearchTerm

SoulseekAlbums ==
    [ArtistName : {<<"a">>}, AlbumTitle : {<<"x">>, <<"b">>},
     SearchTerm : {<<>>, <<"a", " ", "x">>}]

\* searchSoulseek filtering one result of soulseek.search.
VerifySoulseekResult ==
    /\ AtRest
    /\ \E title \in VerifyTitles, album \in SoulseekAlbums, losslessOnly \in BOOLEAN,
          cfg \in VerifyCfgs :
           Called("searchSoulseek", <<title, album, losslessOnly, cfg>>,
                  Returned(verifyresult(title, SoulseekVerifyTerm(album),
                                        losslessOnly \/ cfg.PREFERRED_QUALITY = 3, cfg)))

NextVerify ==
    \/ VerifyResult
    \/ VerifySoulseekResult
    \/ Return

SpecVerify == InitCall /\ [][NextVerify]_vars

(***************************************************************************)
(* searchforalbum: one album, or every wanted album of the database.       *)
(***************************************************************************)
MaxAlbums == 2

\* The rows of SELECT * from albums WHERE Status="Wanted" OR Status="Wanted
\* Lossless": whether title and artist are there, and what the release date is.
WantedAlbums ==
    [Status : {"Wanted", "Wanted Lossless"}, Named : BOOLEAN,
     ReleaseDate : {"none", "invalid", "future", "past"}]

WantedLists == UNION {[1..n -> WantedAlbums] : n \in 0..MaxAlbums}

\* The locals of searchforalbum and the calls of do_sorted_search it has made.
BatchLocals(i, new, losslessOnly, searched) ==
    [i |-> i, new |-> new, losslessOnly |-> losslessOnly, searched |-> searched]

InSearchForAlbum(pc) ==
    /\ fncall.fn = "searchforalbum"
    /\ fncall.out.kind = "running"
    /\ fncall.out.value[1] = pc

\* searchforalbum(albumid, new, losslessOnly, choose_specific_download); albumid 0
\* stands for None, any other for the row of that number.
SearchForAlbum ==
    /\ AtRest
    /\ \E results \in WantedLists, albumid \in 0..MaxAlbums, new \in BOOLEAN,
          losslessOnly \in BOOLEAN, choose \in BOOLEAN, wait \in BOOLEAN :
           /\ albumid <= Len(results)
           /\ albumid = 0 => ~choose
           /\ albumid # 0 => ~wait
           /\ Called("searchforalbum", <<results, albumid, new, losslessOnly, choose, wait>>,
                     Running(IF albumid = 0 THEN "for" ELSE "one",
                             BatchLocals(1, new, losslessOnly, <<>>)))

\* The three 'continue' of the loop, under CONFIG.WAIT_UNTIL_RELEASE_DATE = wait.
SkipsAlbum(album, wait) ==
    \/ ~album.Named
    \/ wait /\ album.ReleaseDate \in {"invalid", "future"}

\* One round of 'for album in results'.
SearchWantedAlbum ==
    /\ InSearchForAlbum("for")
    /\ LET results == fncall.args[1]
           wait == fncall.args[6]
           l == fncall.out.value[2]
       IN /\ l.i <= Len(results)
          /\ IF SkipsAlbum(results[l.i], wait)
             THEN Called("searchforalbum", fncall.args,
                         Running("for", BatchLocals(l.i + 1, l.new, l.losslessOnly, l.searched)))
             ELSE LET losslessOnly ==
                          IF results[l.i].Status = "Wanted Lossless" THEN TRUE
                          ELSE l.losslessOnly
                  IN Called("searchforalbum", fncall.args,
                            Running("for",
                                    BatchLocals(l.i + 1, TRUE, losslessOnly,
                                                Append(l.searched, <<l.i, TRUE, losslessOnly>>))))

\* The loop is over.
EndOfWantedAlbums ==
    /\ InSearchForAlbum("for")
    /\ fncall.out.value[2].i > Len(fncall.args[1])
    /\ Called("searchforalbum", fncall.args, Running("end", fncall.out.value[2]))

\* The two branches for one album.
SearchOneAlbum ==
    /\ InSearchForAlbum("one")
    /\ LET l == fncall.out.value[2]
       IN Called("searchforalbum", fncall.args,
                 Running("end",
                         BatchLocals(l.i, l.new, l.losslessOnly,
                                     <<(<<fncall.args[2], l.new, l.losslessOnly>>)>>)))

\* searchforalbum returns: the results of the search when a specific download
\* is to be chosen, None otherwise.
ReturnSearchForAlbum ==
    /\ InSearchForAlbum("end")
    /\ Called("searchforalbum", fncall.args,
              IF fncall.args[5] THEN Returned(fncall.out.value[2].searched) ELSE ReturnedNone)

ReturnFromSearchForAlbum ==
    /\ fncall.fn = "searchforalbum"
    /\ fncall.out.kind # "running"
    /\ Return

NextBatch ==
    \/ SearchForAlbum
    \/ SearchWantedAlbum
    \/ EndOfWantedAlbums
    \/ SearchOneAlbum
    \/ ReturnSearchForAlbum
    \/ ReturnFromSearchForAlbum

SpecBatch == InitCall /\ [][NextBatch]_vars

(***************************************************************************)
(* soulseek.download_completed_album, on the responses of checkCompleted.  *)
(***************************************************************************)
\* The pair the function returns, and the number of downloads it cancelled first.
AlbumStatus(completed, errored, cancelled) ==
    Returned([completed |-> completed, errored |-> errored, cancelled |-> cancelled])

\* get_downloads raises, returns None, a value that is no dict, or the downloads;
\* every failure is answered with (False, True).
soulseek_download_completed_album(client, downloads, directories, files) ==
    IF client \in {"raise", "none"} \/ downloads \in {"raise", "none", "junk"}
    THEN AlbumStatus(FALSE, TRUE, 0)
    ELSE LET counted == SoulseekCounted(directories, files) # {}
             fs == IF counted THEN files.entries ELSE <<>>
             total_count == Count(fs, SoulseekFileStates \ {"junk"})
             completed_count == Count(fs, {"succeeded"})
             errored_count == Count(fs, {"errored", "stale", "junk"})
             completed == completed_count = total_count /\ total_count > 0
             errored == errored_count > 0
         IN AlbumStatus(completed, errored, IF errored THEN total_count ELSE 0)

SoulseekDownloadCompletedAlbum ==
    /\ AtRest
    /\ \E client \in {"raise", "none", "client"}, downloads \in {"raise", "none", "junk", "dict"},
          directories \in SoulseekDirectories, files \in SoulseekFiles :
           Called("soulseek.download_completed_album", <<client, downloads, directories, files>>,
                  soulseek_download_completed_album(client, downloads, directories, files))

NextAlbumCompleted ==
    \/ SoulseekDownloadCompletedAlbum
    \/ Return

SpecAlbumCompleted == InitCall /\ [][NextAlbumCompleted]_vars

(***************************************************************************)
(* Properties.                                                             *)
(***************************************************************************)
\* The invocation made an adapter call in this step.
AdapterInvoked(p) == Len(inv'[p].called) > Len(inv[p].called)

\* Every call of a comes before every call of b.
Before(called, a, b) ==
    \A i, j \in 1..Len(called) : called[i] = a /\ called[j] = b => i < j

\* The rows of a release and URL with status 'Snatched'.
SnatchedRows(albumid, url) ==
    {i \in 1..Len(snatched) :
        snatched[i].AlbumID = albumid /\ snatched[i].URL = url /\ snatched[i].Status = "Snatched"}

\* C1: send_to_downloader inserts a 'Snatched' row and marks the album Snatched if
\* and only if the backend accepted the payload: no row when the push or the file
\* write failed or raised, and a row whenever the backend accepted.
C1_RowIffAccepted ==
    \A p \in Procs :
        LET d == inv[p].dispatch
        IN /\ d.rows >= 1 <=> d.push = "accepted"
           /\ d.marked <=> d.push = "accepted"

\* The first tier of a tiered mode has returned a result that matches.
FirstTierHasMatch(p) ==
    LET v == inv[p]
    IN /\ v.pc = "tiers"
       /\ \/ Branch(CONFIG) = 0 /\ v.called = <<"nzb">>
          \/ Branch(CONFIG) = 1 /\ v.called = <<"torrent">>
          \/ Branch(CONFIG) = 2 /\ v.called = <<"soulseek">>
       /\ ~v.resNone
       /\ \E r \in Range(v.results) : r.matches

\* C2: in Torrent-first mode, once the torrent tier has returned a filtered result
\* that matches, searchNZB and every later tier are not invoked in that invocation;
\* the same for the first tier of NZB-first and of PeerShare-first.
C2_FirstTierShortCircuits ==
    [][\A p \in Procs : FirstTierHasMatch(p) => ~AdapterInvoked(p)]_vars

\* Torrent-first, every tier available: the torrent tier returned a match and the
\* adapter calls are over with the torrent tier the only one called.
C2_Witness ==
    /\ Branch(CONFIG) = 1
    /\ \A tier \in {"nzb", "torrent", "bandcamp", "soulseek"} : Available(CONFIG, tier)
    /\ PastTiers(1)
    /\ inv[1].called = <<"torrent">>
    /\ \E r \in Range(inv[1].results) : r.matches

\* C3: do_sorted_search never raises to its caller, whatever the mode, the tiers
\* available and the tiers' outcomes.
C3_NeverRaises ==
    \A p \in Procs : inv[p].pc # "raised"

\* C4: when the login to a gazelle provider fails during searchTorrent, the cached
\* session is cleared, the call does not raise, and the remaining enabled providers
\* are still queried.
C4_LoginFailureIsContained ==
    \A p \in Procs :
        LET t == inv[p].tcall
        IN \A g \in t.failed \cap GazelleProviders :
              /\ gazelleobjs[g] = None
              /\ ~t.raised
              /\ Range(t.queried) = t.enabled

\* The last adapter call of the invocation went through more_filtering.
LastCallFiltered(p) ==
    LET v == inv[p]
    IN /\ v.pc = "tiers"
       /\ v.called # <<>>
       /\ v.called[Len(v.called)] \in {"nzb", "torrent", "soulseek"}

\* C5: more_filtering drops, in an automatic search, a result whose URL is the URL
\* of a snatched row of the release, and in a manual search keeps it (if its size
\* is within the limits).
C5_DedupOnlyWhenNew ==
    \A p \in Procs :
        LastCallFiltered(p) =>
            \A r \in Range(inv[p].raw) :
                (\E i \in 1..Len(snatched) :
                    snatched[i].AlbumID = inv[p].album /\ snatched[i].URL = r.url)
                => IF inv[p].new
                   THEN r \notin Range(inv[p].filtered)
                   ELSE (r \in Range(inv[p].filtered)
                         <=> InSizeWindow(r, CONFIG.QUALITY, inv[p].albumlength))

\* An automatic search found again, within the size limits, a result whose URL is
\* in the ledger, and the adapter returned nothing of it.
C5_Witness ==
    /\ LastCallFiltered(1)
    /\ inv[1].new
    /\ \E r \in Range(inv[1].raw) :
          /\ InSizeWindow(r, CONFIG.QUALITY, inv[1].albumlength)
          /\ AlreadyDownloaded(snatched, r.url) # {}
          /\ r \notin Range(inv[1].filtered)

\* C6: after any sequence of automatic searches the ledger holds at most one
\* 'Snatched' row for each release and URL.  Stated for the URLs of the tiers whose
\* adapters are in the sources (bandcamp.search is not).
C6_OneSnatchedRowPerUrl ==
    \A a \in AlbumIDs :
        \A url \in {snatched[i].URL : i \in 1..Len(snatched)} \ {BandcampHit.url} :
            Cardinality(SnatchedRows(a, url)) <= 1

\* C7: in Merge-all mode every available tier, peer-share among them, has been
\* queried when the adapter calls are over.
C7_MergeQueriesEveryTier ==
    \A p \in Procs :
        PastTiers(p) /\ Branch(CONFIG) = 3 =>
            \A tier \in {"nzb", "torrent", "bandcamp", "soulseek"} :
                Available(CONFIG, tier) => tier \in Range(inv[p].called)

\* C8: an adapter is invoked only if its tier is available.
C8_OnlyAvailableTiers ==
    \A p \in Procs :
        \A tier \in Range(inv[p].called) : Available(CONFIG, tier)

\* C9: the tiers are queried one after another in the mode's fixed order, each at
\* most once: peer-share after every other tier in the NZB-first and Torrent-first
\* modes, and before every other tier in PeerShare-first.
C9_TierOrder ==
    \A p \in Procs :
        LET called == inv[p].called
            mode == Branch(CONFIG)
            others == {"nzb", "torrent", "bandcamp"}
        IN /\ \A i, j \in 1..Len(called) : called[i] = called[j] => i = j
           /\ mode \in {0, 1} => \A t \in others : Before(called, t, "soulseek")
           /\ mode = 2 => \A t \in others : Before(called, "soulseek", t)
           /\ mode = 1 => Before(called, "torrent", "nzb")
           /\ mode # 1 => Before(called, "nzb", "torrent")
           /\ Before(called, "nzb", "bandcamp")
           /\ Before(called, "torrent", "bandcamp")

\* NZB-first: all four tiers were queried, peer-share last.
C9_Witness ==
    /\ Branch(CONFIG) = 0
    /\ inv[1].called = <<"nzb", "torrent", "bandcamp", "soulseek">>

\* C10: the candidate handed on is the top-ranked one, and when fetching its
\* payload or dispatching it fails no SnatchRecord is written.
C10_NoRecordOnFailure ==
    \A p \in Procs :
        LET v == inv[p]
        IN v.ranked /\ v.pc \in {"send", "done", "raised"} =>
              /\ v.cand.title = v.sorted[1].title
              /\ v.cand.size = v.sorted[1].size
              /\ v.cand.provider = v.sorted[1].provider
              /\ v.dispatch.push # "accepted" => v.dispatch.rows = 0

\* C11: a successful dispatch writes exactly one 'Snatched' row, and after it one
\* 'Seed_Snatched' row if and only if the provider's seed ratio is known and
\* strictly positive and the backend returned a torrent id; never more than two
\* rows, never a 'Seed_Snatched' row alone.
C11_SeedRowIffPositiveRatio ==
    \A p \in Procs :
        LET d == inv[p].dispatch
        IN d.push = "accepted" /\ d.marked =>
              IF d.seed = "pos" /\ d.torrentid
              THEN d.written = <<"Snatched", "Seed_Snatched">>
              ELSE d.written = <<"Snatched">>

\* A checkCompleted call has ended.
CheckCompletedCalls == {"sab.checkCompleted", "nzbget.checkCompleted", "soulseek.checkCompleted"}

\* C12: checkCompleted of SABnzbd, NZBGet and Soulseek never raises: it returns a
\* CompletionStatus or None, whatever the identifier and the backend's behaviour.
C12_CheckCompletedNeverRaises ==
    fncall.fn \in CheckCompletedCalls => fncall.out.kind \in {"value", "none"}

\* SABnzbd answered the queue request with a value of the wrong type, the exception
\* was caught and None returned.
C12_Witness ==
    /\ fncall.fn = "sab.checkCompleted"
    /\ fncall.args[1] # ""
    /\ fncall.args[2].kind = "junk"
    /\ fncall.out = ReturnedNone

\* C13: every CompletionStatus returned by a checkCompleted has 0 <= progress <= 1.
C13_ProgressInUnitRange ==
    fncall.fn \in CheckCompletedCalls /\ fncall.out.kind = "value" =>
        LET progress == fncall.out.value.progress
        IN 0 <= progress.num /\ progress.num <= progress.den

\* The target-bitrate mode of sort_search_results.
BitrateMode(cfg) == cfg.PREFERRED_QUALITY = 2 /\ cfg.PREFERRED_BITRATE # 0

\* a comes no later than b by (matches, priority, size), all descending.
RanksNoLater(a, b, words) ==
    \/ Bit(a.matches) > Bit(b.matches)
    \/ /\ a.matches = b.matches
       /\ \/ Priority(a, words) > Priority(b, words)
          \/ Priority(a, words) = Priority(b, words) /\ a.size >= b.size

Occurrences(seq, x) == Cardinality({i \in 1..Len(seq) : seq[i] = x})

\* C14: in every quality mode other than target-bitrate, sort_search_results returns
\* a permutation of its input ordered by matches, then priority, then size, all
\* descending.
C14_SortedByMatchPrioritySize ==
    fncall.fn = "sort_search_results" /\ ~BitrateMode(fncall.args[2]) =>
        LET input == fncall.args[1]
            sorted == fncall.out.value
            words == fncall.args[2].PREFERRED_WORDS
        IN /\ Len(sorted) = Len(input)
           /\ \A r \in Range(input) : Occurrences(sorted, r) = Occurrences(input, r)
           /\ \A i, j \in 1..Len(sorted) : i < j => RanksNoLater(sorted[i], sorted[j], words)

\* Two results with equal matches and priority, the smaller given first, come back
\* with the larger first.
C14_Witness ==
    /\ fncall.fn = "sort_search_results"
    /\ ~BitrateMode(fncall.args[2])
    /\ Len(fncall.args[1]) = 2
    /\ fncall.args[1][1].matches = fncall.args[1][2].matches
    /\ fncall.args[1][1].provider = fncall.args[1][2].provider
    /\ fncall.args[1][1].title = fncall.args[1][2].title
    /\ fncall.args[1][1].size < fncall.args[1][2].size
    /\ fncall.out.value = <<fncall.args[1][2], fncall.args[1][1]>>

\* A call of calculate_torrent_hash, of searchNZB or searchTorrent up to the term.
HashCall == fncall.fn = "calculate_torrent_hash"
TermCall == fncall.fn \in {"searchNZB", "searchTorrent"}

\* The cleaning of the dialect of the current call: the replacements, the
\* transliteration and the bad characters turned to spaces.
DialectClean(name) ==
    BadCharacters(IF fncall.fn = "searchNZB" THEN NzbClean(name) ELSE TorrentClean(name))

\* C15: calculate_torrent_hash returns an upper-case hash or raises ValueError and
\* nothing else; a link that is no magnet link, without data, raises ValueError.
C15_HashOrValueError ==
    HashCall =>
        /\ \/ fncall.out.kind = "value" /\ upper(fncall.out.value) = fncall.out.value
           \/ fncall.out = RaisedError("ValueError")
        /\ (~fncall.args[1].magnet /\ fncall.args[2] \in {"none", "empty"})
               => fncall.out = RaisedError("ValueError")

\* C16: cleaning a cleaned name again (replacements, transliteration, bad characters
\* to spaces) leaves it as it is, in both dialects.
C16_CleaningIsIdempotent ==
    TermCall =>
        LET once == fncall.out.value.artistterm
        IN  DialectClean(once) = once

\* C17: a search term given by the user is the term, character for character.
C17_UserTermVerbatim ==
    (TermCall /\ fncall.args[1].SearchTerm # <<>>)
        => fncall.out.value.term = fncall.args[1].SearchTerm

\* C18: for the artist "Various Artists", with no term from the user and a type other
\* than "part of", the term is the cleaned title followed by the year.
C18_VariousArtistsTitleAndYear ==
    (/\ TermCall
     /\ fncall.args[1].ArtistName = VariousArtists
     /\ fncall.args[1].SearchTerm = <<>>
     /\ fncall.args[1].Type # "part of")
        => fncall.out.value.term =
               DialectClean(fncall.args[1].AlbumTitle) \o <<" ">> \o fncall.args[1].year

\* C19: in the tiered modes, an available tier is left out only if the results of an
\* earlier tier hold at least one result that matches.
C19_FallbackUnlessMatch ==
    \A p \in Procs :
        (PastTiers(p) /\ Branch(CONFIG) # 3) =>
            \A tier \in Range(TierOrder(Branch(CONFIG))) :
                (Available(CONFIG, tier) /\ tier \notin Range(inv[p].called)) =>
                    /\ ~inv[p].resNone
                    /\ \E r \in Range(inv[p].results) : r.matches

\* The session cached for an authenticated provider.
CachedSession(provider) ==
    IF provider = "rutracker.org" THEN ruobj ELSE gazelleobjs[provider]

\* The invocation made its searchTorrent call in this step.
TorrentInvoked(p) ==
    /\ AdapterInvoked(p)
    /\ inv'[p].called[Len(inv'[p].called)] = "torrent"

\* C20: a searchTorrent call attempts a login to an authenticated provider only if
\* no session is cached for it or the cached session reports that it is not logged
\* in; with a cached session that is logged in it attempts no login and the session
\* stays the cached one.
C20_LoginOnlyWithoutValidSession ==
    [][\A p \in Procs :
         TorrentInvoked(p) =>
             LET t == inv'[p].tcall
             IN /\ \A g \in t.logins : CachedSession(g) = None \/ g \notin t.valid
                /\ \A g \in t.valid :
                       /\ g \notin t.logins
                       /\ CachedSession(g)' = CachedSession(g)]_vars

\* A second searchTorrent call found one session cached and logged in, and logged in
\* to another provider.
C20_Witness ==
    \E p \in Procs :
        /\ inv[p].pc = "tiers"
        /\ inv[p].tcall.valid # {}
        /\ inv[p].tcall.logins # {}

\* The invocation made its searchNZB call in this step.
NzbInvoked(p) ==
    /\ AdapterInvoked(p)
    /\ inv'[p].called[Len(inv'[p].called)] = "nzb"

\* send_to_downloader ran to its ledger insert in this step.
Inserted(p) == inv[p].pc = "send" /\ inv'[p].pc = "done" /\ inv'[p].dispatch.marked

\* C21: the dedup lookup reads the ledger as it is when the adapter runs, and the
\* insert that follows the push adds its 'Snatched' row whatever the ledger holds by
\* then: nothing between the two keeps a second invocation from writing the same row.
C21_LookupAndInsertNotAtomic ==
    [][\A p \in Procs :
         /\ NzbInvoked(p) =>
                \A r \in Range(inv'[p].raw) :
                    r \in Range(inv'[p].filtered) <=>
                        /\ InSizeWindow(r, CONFIG.QUALITY, inv[p].albumlength)
                        /\ AlreadyDownloaded(snatched, r.url) = {}
         /\ Inserted(p) =>
                Cardinality(SnatchedRows(inv[p].album, inv[p].cand.url)')
                    = Cardinality(SnatchedRows(inv[p].album, inv[p].cand.url)) + 1]_vars

\* Both invocations, neither returned yet, found the same URL absent from the ledger
\* and each wrote a 'Snatched' row for it.
C21_Witness ==
    /\ \A p \in Procs :
          /\ inv[p].pc = "done"
          /\ inv[p].new
          /\ inv[p].album = inv[1].album
          /\ inv[p].cand.url = inv[1].cand.url
          /\ inv[p].dispatch.written = <<"Snatched">>
    /\ Cardinality(SnatchedRows(inv[1].album, inv[1].cand.url)) = 2

\* C22: a call of execute_search returns, also when the search never reports
\* isComplete.
C22_ExecuteSearchReturns ==
    (fncall.fn = "soulseek.execute_search") ~> (fncall.out.kind = "value")

\* C23: when the write into the blackhole directory fails after the file was
\* opened, no file of that name is left in the directory and the call returns
\* without a ledger row.
C23_NoPartialFile ==
    (fncall.fn = "send_to_downloader" /\ fncall.args[4].fail = "write") =>
        /\ ~fncall.out.value.file.exists
        /\ ~fncall.out.value.row

\* The listing holds an entry for the identifier; the first of them.
HasMatch(response) ==
    response.kind = "ok" /\ \E i \in 1..Len(response.entries) : response.entries[i].kind = "match"

FirstMatch(response) ==
    LET hits == {i \in 1..Len(response.entries) : response.entries[i].kind = "match"}
    IN response.entries[CHOOSE i \in hits : \A j \in hits : i <= j]

\* The backend answered (with a listing or with nothing) and no entry is for the
\* identifier.
NotFound(response) == response.kind \in {"ok", "none"} /\ ~HasMatch(response)

\* A check that got past its tests of the identifier and the host, with the answers
\* to its queue and history requests.
QueueFirstCall ==
    \/ fncall.fn = "sab.checkCompleted" /\ fncall.args[1] # ""
    \/ fncall.fn = "nzbget.checkCompleted" /\ fncall.args[1] # "" /\ fncall.args[2]
QueueAnswer == fncall.args[Len(fncall.args) - 1]
HistoryAnswer == fncall.args[Len(fncall.args)]
CompletedStatus == IF fncall.fn = "sab.checkCompleted" THEN "Completed" ELSE "SUCCESS"

Delta(r) ==
    LET target == fncall.args[4] * fncall.args[2].PREFERRED_BITRATE * 128
        size == r.size * 1000
    IN IF size > target THEN size - target ELSE target - size

\* a comes no later than b by matches and priority descending, then distance to the
\* target size ascending.
RanksNoLaterByDelta(a, b, words) ==
    \/ Bit(a.matches) > Bit(b.matches)
    \/ /\ a.matches = b.matches
       /\ \/ Priority(a, words) > Priority(b, words)
          \/ Priority(a, words) = Priority(b, words) /\ Delta(a) <= Delta(b)

\* C25: in target-bitrate mode with a known duration, sort_search_results returns the
\* results that are not lossless, by matches and priority descending and distance
\* to the target size ascending, when there is one; else the lossless results by
\* matches, priority and size descending when the lossless fallback is on and there
\* is one; else nothing.
C25_BitrateModeBuckets ==
    (/\ fncall.fn = "sort_search_results"
     /\ BitrateMode(fncall.args[2])
     /\ fncall.args[4] # 0) =>
        LET input == fncall.args[1]
            sorted == fncall.out.value
            cfg == fncall.args[2]
            words == cfg.PREFERRED_WORDS
            lossy == {r \in Range(input) : ~IsFlac(r.title)}
            lossless == {r \in Range(input) : IsFlac(r.title)}
        IN IF lossy # {}
           THEN /\ Range(sorted) = lossy
                /\ \A r \in lossy : Occurrences(sorted, r) = Occurrences(input, r)
                /\ \A i, j \in 1..Len(sorted) :
                       i < j => RanksNoLaterByDelta(sorted[i], sorted[j], words)
           ELSE IF cfg.PREFERRED_BITRATE_ALLOW_LOSSLESS /\ lossless # {}
           THEN /\ Range(sorted) = lossless
                /\ \A r \in lossless : Occurrences(sorted, r) = Occurrences(input, r)
                /\ \A i, j \in 1..Len(sorted) :
                       i < j => RanksNoLater(sorted[i], sorted[j], words)
           ELSE sorted = <<>>

\* Target bitrate: a lossless result, then two others alike but for their sizes, the
\* one further above the target first; the nearer one comes back first and the
\* lossless one is not returned.
C25_Witness ==
    /\ fncall.fn = "sort_search_results"
    /\ BitrateMode(fncall.args[2])
    /\ Len(fncall.args[1]) = 3
    /\ IsFlac(fncall.args[1][1].title)
    /\ ~IsFlac(fncall.args[1][2].title)
    /\ fncall.args[1][3] = [fncall.args[1][2] EXCEPT !.size = 100]
    /\ fncall.args[1][2].size = 200
    /\ fncall.out.value = <<fncall.args[1][3], fncall.args[1][2]>>

\* The size of a result against the window around the target size, with both sides
\* multiplied by 100000: size >= target - target * low / 100 and
\* size <= target + target * high / 100 for target = albumlength / 1000 * kbps * 128.
AtLeastLowBound(r, cfg, albumlength) ==
    r.size * 100000
        >= albumlength * cfg.PREFERRED_BITRATE * 128 * (100 - cfg.PREFERRED_BITRATE_LOW_BUFFER)

AtMostHighBound(r, cfg, albumlength) ==
    r.size * 100000
        <= albumlength * cfg.PREFERRED_BITRATE * 128 * (100 + cfg.PREFERRED_BITRATE_HIGH_BUFFER)

\* C26: in target-bitrate mode with a known duration, more_filtering keeps a result
\* that the dedup test does not drop if and only if its size is not below the low
\* bound, when the low buffer is configured, and not above the high bound, when the
\* high buffer is configured, or it is above the high bound, lossless by its title,
\* and the lossless fallback is on; the results kept stay in their order.
C26_SizeWindow ==
    (/\ fncall.fn = "more_filtering"
     /\ BitrateMode(fncall.args[2])
     /\ fncall.args[3] # 0) =>
        LET results == fncall.args[1]
            cfg == fncall.args[2]
            albumlength == fncall.args[3]
            kept == fncall.out.value
            deduped(r) == fncall.args[4] /\ AlreadyDownloaded(fncall.args[5], r.url) # {}
            lowOk(r) == cfg.PREFERRED_BITRATE_LOW_BUFFER = 0 \/ AtLeastLowBound(r, cfg, albumlength)
            highOk(r) ==
                \/ cfg.PREFERRED_BITRATE_HIGH_BUFFER = 0
                \/ AtMostHighBound(r, cfg, albumlength)
                \/ IsFlac(r.title) /\ cfg.PREFERRED_BITRATE_ALLOW_LOSSLESS
            keep == {r \in Range(results) : lowOk(r) /\ highOk(r) /\ ~deduped(r)}
        IN kept = SelectSeq2(results, keep)

\* Both buffers configured, the lossless fallback on: of a lossless and another
\* result above the high bound and one below the low bound, the lossless one alone is
\* kept.
C26_Witness ==
    /\ fncall.fn = "more_filtering"
    /\ BitrateMode(fncall.args[2])
    /\ fncall.args[3] # 0
    /\ fncall.args[2].PREFERRED_BITRATE_LOW_BUFFER # 0
    /\ fncall.args[2].PREFERRED_BITRATE_HIGH_BUFFER # 0
    /\ Len(fncall.args[1]) = 3
    /\ fncall.args[1][1].size = 200 /\ ~IsFlac(fncall.args[1][1].title)
    /\ fncall.args[1][2].size = 200 /\ IsFlac(fncall.args[1][2].title)
    /\ fncall.args[1][3].size = 100
    /\ fncall.out.value = <<fncall.args[1][2]>>

\* The quality modes that ask for lossless releases: highest quality including
\* lossless, lossless only, and a target bitrate with the lossless fallback.
RequestsLossless(cfg) ==
    \/ cfg.PREFERRED_QUALITY \in {1, 3}
    \/ cfg.PREFERRED_QUALITY = 2 /\ cfg.PREFERRED_BITRATE_ALLOW_LOSSLESS

\* C27: verifyresult rejects every title containing 'flac' when losslessOnly is
\* false and the quality mode does not request lossless, in each such mode; when
\* losslessOnly is true or the mode requests lossless, the verdict is the one of
\* the other rules alone.
C27_FlacRejectedUnlessLosslessRequested ==
    fncall.fn = "verifyresult" =>
        LET title == fncall.args[1]
            term == fncall.args[2]
            lossless == fncall.args[3]
            cfg == fncall.args[4]
        IN IF ~lossless /\ ~RequestsLossless(cfg)
           THEN InLower(<<"f", "l", "a", "c">>, title) => fncall.out.value = FALSE
           ELSE fncall.out.value = verifyresult(title, term, TRUE, cfg)

\* The term a tier searched for: the term handed to verifyresult, and for the
\* peer-share tier the text it sent to the network.
QueryTerm ==
    IF fncall.fn = "searchSoulseek" THEN SoulseekSearchText(fncall.args[2]) ELSE fncall.args[2]

\* The title with '.', '-', '/' and '_' turned into spaces, as verifyresult reads it.
SpacedTitle(rawtitle) ==
    [i \in 1..Len(rawtitle) |->
        IF rawtitle[i] \in {".", "-", "/", "_"} THEN " " ELSE rawtitle[i]]

\* C28: verifyresult accepts a title only if every non-empty token of the query
\* term, split on every non-word character and other than 'Various', 'Artists'
\* and 'VA', is a whole word of the title in its literal, punctuation-stripped
\* or '!'->'i', '$'->'s' form, for terms of any number of tokens and in every
\* tier, the peer-share tier included.
C28_AcceptedTitleHoldsEveryToken ==
    (fncall.fn \in {"verifyresult", "searchSoulseek"} /\ fncall.out.value = TRUE) =>
        LET title == SpacedTitle(fncall.args[1])
            tokens == split(QueryTerm, Len(QueryTerm) + 1)
        IN \A i \in 1..Len(tokens) : TokenFound(title, tokens[i])

\* C29: in a run of searchforalbum over all wanted albums, each album is searched
\* with losslessOnly = TRUE exactly when its own status is 'Wanted Lossless' or
\* the caller passed losslessOnly = TRUE.
C29_LosslessOnlyPerAlbum ==
    (fncall.fn = "searchforalbum" /\ fncall.out.kind = "running" /\ fncall.args[2] = 0) =>
        LET results == fncall.args[1]
            searched == fncall.out.value[2].searched
        IN \A k \in 1..Len(searched) :
              searched[k][3] <=>
                  (results[searched[k][1]].Status = "Wanted Lossless" \/ fncall.args[4])

\* What soulseek.checkCompleted says of the same response: completed or not.
CheckCompletedSaysCompleted(args) ==
    LET status == soulseek_checkCompleted(args[1], args[2], args[3], args[4])
    IN status.kind = "value" /\ status.value.completed

\* C30: soulseek.download_completed_album never returns (True, True), whatever
\* the backend answers, malformed file entries included, and it says the album
\* is completed exactly when soulseek.checkCompleted does.
C30_NeverCompletedAndErrored ==
    fncall.fn = "soulseek.download_completed_album" =>
        /\ ~(fncall.out.value.completed /\ fncall.out.value.errored)
        /\ fncall.out.value.completed <=> CheckCompletedSaysCompleted(fncall.args)
====
